---- MODULE Spec2Model ----
(***************************************************************************)
(* A model of the rule-based reasoning engine of                           *)
(* src/agente_base_de_conhecimento.py: the knowledge store, the condition  *)
(* evaluator, forward and backward chaining, the explanation traversals,   *)
(* persistence and the undo stack driven by the menu handlers.             *)
(*                                                                         *)
(* Representation.  A Python value is a tagged record: a number n is       *)
(* [num |-> 10*n] (tenths, so 39.2 is [num |-> 392]), a text s is          *)
(* [txt |-> s], a list is [list |-> <<...>>].  None as a rule id is 0      *)
(* (rule ids start at 1).  A dict is a function on its key set; the        *)
(* insertion order of a dict is not modelled (no engine operation reads    *)
(* it).  The operator tokens of _cmp that are not Latin-1 are spelled      *)
(* "ne_sign", "le_sign" and "ge_sign".                                     *)
(***************************************************************************)
EXTENDS Integers, Sequences, FiniteSets, TLC

VARIABLES kb, undo_stack, disk, last, issued, ncmds

vars == <<kb, undo_stack, disk, last, issued, ncmds>>

(***************************************************************************)
(* Bounds of the model.                                                    *)
(***************************************************************************)
\* commands issued at the menu in one behaviour of Spec
MaxCmds == 4
\* length of the rule list
MaxRules == 2
\* largest value of the rule id counter
MaxRuleId == 4
\* interpreter call depth at which a recursion is reported as RecursionError
RecursionLimit == 12

(***************************************************************************)
(* Values, facts, conditions, rules.                                       *)
(***************************************************************************)
Num(n) == [num |-> n]
Text(s) == [txt |-> s]

IsNumber(v) == "num" \in DOMAIN v
IsList(v) == "list" \in DOMAIN v

V1 == Num(10)
V2 == Num(20)

Attrs == {"X", "Y", "Z"}
Values == {V1, V2}

None == 0

Fact(attr, value) == [attr |-> attr, value |-> value]

Justification(fact, rule_id, premises, note) ==
    [fact |-> fact, rule_id |-> rule_id, premises |-> premises, note |-> note]

\* the note strings "base", "forward (it=k)" and "backward"
NoteBase == [tag |-> "base", it |-> 0]
NoteForward(it) == [tag |-> "forward", it |-> it]
NoteBackward == [tag |-> "backward", it |-> 0]

Rule(id, conditions, conclusion, text) ==
    [id |-> id, conditions |-> conditions, conclusion |-> conclusion, text |-> text]

Cond(attr, op, value) == [attr |-> attr, op |-> op, value |-> value]

\* the parsed rules a user types or a rules file holds
RuleBook ==
    { [conditions |-> <<Cond("Y", "=", V1)>>, conclusion |-> Cond("X", "=", V1),
       text |-> "SE Y = 1 ENTAO X = 1"],
      [conditions |-> <<Cond("X", "=", V1)>>, conclusion |-> Cond("Y", "=", V1),
       text |-> "SE X = 1 ENTAO Y = 1"],
      [conditions |-> <<Cond("X", "=", V1)>>, conclusion |-> Cond("X", "=", V2),
       text |-> "SE X = 1 ENTAO X = 2"],
      [conditions |-> <<Cond("X", "=", V2)>>, conclusion |-> Cond("X", "=", V1),
       text |-> "SE X = 2 ENTAO X = 1"],
      [conditions |-> <<Cond("X", "=", V1), Cond("Y", ">", V1)>>,
       conclusion |-> Cond("Z", "=", V1),
       text |-> "SE X = 1 E Y > 1 ENTAO Z = 1"] }

\* d[k] = v on a dict
Put(f, k, v) == IF k \in DOMAIN f THEN [f EXCEPT ![k] = v] ELSE f @@ (k :> v)
Del(f, k) == [x \in DOMAIN f \ {k} |-> f[x]]

Range(s) == {s[i] : i \in 1..Len(s)}

(***************************************************************************)
(* class KnowledgeBase                                                     *)
(***************************************************************************)
KnowledgeBase ==
    [facts |-> <<>>, rules |-> <<>>, justifications |-> <<>>, next_rule_id |-> 1,
     attributes |-> {}, cond_attrs |-> {}, concl_attrs |-> {}]

\* attr is a name _COND_RE captured: a non-empty string without blanks, for
\* which "isinstance(attr, str) and attr.strip()" holds and strip() changes nothing
touch_attribute(k, attr, where) ==
    [k EXCEPT !.attributes = @ \cup {attr},
              !.cond_attrs = IF where = "cond" THEN @ \cup {attr} ELSE @,
              !.concl_attrs = IF where = "concl" THEN @ \cup {attr} ELSE @]

RECURSIVE touch_conditions(_, _, _)
touch_conditions(k, conds, i) ==
    IF i > Len(conds) THEN k
    ELSE touch_conditions(touch_attribute(k, conds[i].attr, "cond"), conds, i + 1)

extract_attributes_from_rule(k, r) ==
    touch_attribute(touch_conditions(k, r.conditions, 1), r.conclusion.attr, "concl")

RECURSIVE extract_all(_, _, _)
extract_all(k, rules, i) ==
    IF i > Len(rules) THEN k
    ELSE extract_all(extract_attributes_from_rule(k, rules[i]), rules, i + 1)

rebuild_attributes(k) ==
    extract_all([k EXCEPT !.attributes = {}, !.cond_attrs = {}, !.concl_attrs = {}],
                k.rules, 1)

\* add_fact that writes a justification only for an attribute that has none
add_fact_keeps_provenance(k, attr, value) ==
    [k EXCEPT !.facts = Put(@, attr, value),
              !.justifications =
                  IF attr \in DOMAIN @ THEN @
                  ELSE Put(@, attr, Justification(Fact(attr, value), None, <<>>,
                                                  NoteBase))]

add_fact(k, attr, value) ==
    [k EXCEPT !.facts = Put(@, attr, value),
              !.justifications =
                  Put(@, attr, Justification(Fact(attr, value), None, <<>>, NoteBase))]

has_fact(facts, attr, value) ==
    IF attr \notin DOMAIN facts THEN FALSE ELSE facts[attr] = value

\* add_rule numbering a rule by the length of the rule list
add_rule_by_length(k, conditions, conclusion, text) ==
    LET r == Rule(Len(k.rules) + 1, conditions, conclusion, text)
    IN extract_attributes_from_rule(
           [k EXCEPT !.next_rule_id = Len(k.rules) + 2, !.rules = Append(@, r)], r)

\* add_rule: the store after the call; the id it returns is k.next_rule_id
add_rule(k, conditions, conclusion, text) ==
    LET r == Rule(k.next_rule_id, conditions, conclusion, text)
    IN extract_attributes_from_rule(
           [k EXCEPT !.next_rule_id = @ + 1, !.rules = Append(@, r)], r)

\* the value add_rule returned, read from the rule it appended to k2
returned_id(k2) == k2.rules[Len(k2.rules)].id

\* remove_rule without the call of _rebuild_attributes
remove_rule_no_rebuild(k, rid) ==
    LET kept == SelectSeq(k.rules, LAMBDA r : r.id # rid)
    IN [ret |-> Len(kept) < Len(k.rules), kb |-> [k EXCEPT !.rules = kept]]

\* remove_rule that also retracts the facts whose justification names the rule
remove_rule_retracts(k, rid) ==
    LET kept == SelectSeq(k.rules, LAMBDA r : r.id # rid)
        held == {a \in DOMAIN k.facts : k.justifications[a].rule_id # rid}
    IN IF Len(kept) < Len(k.rules)
       THEN [ret |-> TRUE,
             kb |-> rebuild_attributes(
                        [k EXCEPT !.rules = kept,
                                  !.facts = [a \in held |-> k.facts[a]],
                                  !.justifications =
                                      [a \in held |-> k.justifications[a]]])]
       ELSE [ret |-> FALSE, kb |-> [k EXCEPT !.rules = kept]]

remove_rule(k, rid) ==
    LET kept == SelectSeq(k.rules, LAMBDA r : r.id # rid)
    IN IF Len(kept) < Len(k.rules)
       THEN [ret |-> TRUE, kb |-> rebuild_attributes([k EXCEPT !.rules = kept])]
       ELSE [ret |-> FALSE, kb |-> [k EXCEPT !.rules = kept]]

(***************************************************************************)
(* Condition evaluation                                                    *)
(***************************************************************************)
EqOps == {"=", "==", "é", "eh", "É"}

IsText(v) == "txt" \in DOMAIN v

\* float() on the texts of the model that it accepts ('40' typed in quotes is
\* the text "40" and float("40") is 40.0), in tenths like the numbers
FloatOfText == [s \in {"40"} |-> 400]

\* float(a): defined on numbers and on the texts of FloatOfText; any other text
\* or a list raises, which _cmp catches and turns into False
CanFloat(v) == IsNumber(v) \/ (IsText(v) /\ v.txt \in DOMAIN FloatOfText)
Float(v) == IF IsNumber(v) THEN v.num ELSE FloatOfText[v.txt]

\* _cmp answering True where float() raises
cmp_fail_open(a, op, b) ==
    IF op \in EqOps THEN a = b
    ELSE IF op \in {"!=", "ne_sign"} THEN a # b
    ELSE IF op \in {"<", "le_sign", "<="}
         THEN IF CanFloat(a) /\ CanFloat(b)
              THEN IF op \in {"le_sign", "<="} THEN Float(a) <= Float(b)
                                               ELSE Float(a) < Float(b)
              ELSE TRUE
    ELSE IF op \in {">", "ge_sign", ">="}
         THEN IF CanFloat(a) /\ CanFloat(b)
              THEN IF op \in {"ge_sign", ">="} THEN Float(a) >= Float(b)
                                               ELSE Float(a) > Float(b)
              ELSE TRUE
    ELSE IF op \in {"IN", "in", "In", "iN"}
         THEN IF IsList(b) THEN \E i \in 1..Len(b.list) : b.list[i] = a
              ELSE FALSE
    ELSE FALSE

cmp(a, op, b) ==
    IF op \in EqOps THEN a = b
    ELSE IF op \in {"!=", "ne_sign"} THEN a # b
    ELSE IF op \in {"<", "le_sign", "<="}
         THEN IF CanFloat(a) /\ CanFloat(b)
              THEN IF op \in {"le_sign", "<="} THEN Float(a) <= Float(b)
                                               ELSE Float(a) < Float(b)
              ELSE FALSE
    ELSE IF op \in {">", "ge_sign", ">="}
         THEN IF CanFloat(a) /\ CanFloat(b)
              THEN IF op \in {"ge_sign", ">="} THEN Float(a) >= Float(b)
                                               ELSE Float(a) > Float(b)
              ELSE FALSE
    ELSE IF op \in {"IN", "in", "In", "iN"}
         THEN IF IsList(b) THEN \E i \in 1..Len(b.list) : b.list[i] = a
              ELSE FALSE
    ELSE FALSE

RECURSIVE conditions_hold_from(_, _, _, _)
\* conditions_hold returning the premises collected so far when a condition fails
conditions_hold_from_keeps_partial(facts, conds, i, used) ==
    IF i > Len(conds) THEN [ok |-> TRUE, used |-> used]
    ELSE LET c == conds[i]
         IN IF c.attr \notin DOMAIN facts THEN [ok |-> FALSE, used |-> used]
            ELSE IF ~cmp(facts[c.attr], c.op, c.value) THEN [ok |-> FALSE, used |-> used]
            ELSE conditions_hold_from(facts, conds, i + 1,
                                      Append(used, Fact(c.attr, facts[c.attr])))

\* conditions_hold putting each premise before those collected so far
conditions_hold_from_reverses(facts, conds, i, used) ==
    IF i > Len(conds) THEN [ok |-> TRUE, used |-> used]
    ELSE LET c == conds[i]
         IN IF c.attr \notin DOMAIN facts THEN [ok |-> FALSE, used |-> <<>>]
            ELSE IF ~cmp(facts[c.attr], c.op, c.value) THEN [ok |-> FALSE, used |-> <<>>]
            ELSE conditions_hold_from(facts, conds, i + 1,
                                      <<Fact(c.attr, facts[c.attr])>> \o used)

conditions_hold_from(facts, conds, i, used) ==
    IF i > Len(conds) THEN [ok |-> TRUE, used |-> used]
    ELSE LET c == conds[i]
         IN IF c.attr \notin DOMAIN facts THEN [ok |-> FALSE, used |-> <<>>]
            ELSE IF ~cmp(facts[c.attr], c.op, c.value) THEN [ok |-> FALSE, used |-> <<>>]
            ELSE conditions_hold_from(facts, conds, i + 1,
                                      Append(used, Fact(c.attr, facts[c.attr])))

conditions_hold(facts, conds) == conditions_hold_from(facts, conds, 1, <<>>)

(***************************************************************************)
(* Forward chaining                                                        *)
(***************************************************************************)
max_iterations == 50

\* forward_rule without "inferred.append(Fact(attr, val))"
forward_rule_no_append(st, r, it) ==
    LET h == conditions_hold(st.facts, r.conditions)
        attr == r.conclusion.attr
        val == r.conclusion.value
    IN IF ~h.ok THEN st
       ELSE IF has_fact(st.facts, attr, val) THEN st
       ELSE [st EXCEPT !.facts = Put(@, attr, val),
                       !.justifications =
                           Put(@, attr, Justification(Fact(attr, val), r.id, h.used,
                                                      NoteForward(it))),
                       !.new_any = TRUE]

\* forward_rule without "new_any = True"
forward_rule_no_progress(st, r, it) ==
    LET h == conditions_hold(st.facts, r.conditions)
        attr == r.conclusion.attr
        val == r.conclusion.value
    IN IF ~h.ok THEN st
       ELSE IF has_fact(st.facts, attr, val) THEN st
       ELSE [st EXCEPT !.facts = Put(@, attr, val),
                       !.justifications =
                           Put(@, attr, Justification(Fact(attr, val), r.id, h.used,
                                                      NoteForward(it))),
                       !.inferred = Append(@, Fact(attr, val))]

\* forward_rule evaluating the conditions on the facts of the start of the
\* round: the facts asserted in round it are left out
forward_rule_blind_to_round(st, r, it) ==
    LET old == {a \in DOMAIN st.facts : st.justifications[a].note # NoteForward(it)}
        h == conditions_hold([a \in old |-> st.facts[a]], r.conditions)
        attr == r.conclusion.attr
        val == r.conclusion.value
    IN IF ~h.ok THEN st
       ELSE IF has_fact(st.facts, attr, val) THEN st
       ELSE [st EXCEPT !.facts = Put(@, attr, val),
                       !.justifications =
                           Put(@, attr, Justification(Fact(attr, val), r.id, h.used,
                                                      NoteForward(it))),
                       !.inferred = Append(@, Fact(attr, val)),
                       !.new_any = TRUE]

\* forward_rule that writes a justification only for an attribute that has none
forward_rule_keeps_justification(st, r, it) ==
    LET h == conditions_hold(st.facts, r.conditions)
        attr == r.conclusion.attr
        val == r.conclusion.value
    IN IF ~h.ok THEN st
       ELSE IF has_fact(st.facts, attr, val) THEN st
       ELSE [st EXCEPT !.facts = Put(@, attr, val),
                       !.justifications =
                           IF attr \in DOMAIN @ THEN @
                           ELSE Put(@, attr,
                                    Justification(Fact(attr, val), r.id, h.used,
                                                  NoteForward(it))),
                       !.inferred = Append(@, Fact(attr, val)),
                       !.new_any = TRUE]

\* forward_rule without "if kb.has_fact(attr, val): continue"
forward_rule_rederives(st, r, it) ==
    LET h == conditions_hold(st.facts, r.conditions)
        attr == r.conclusion.attr
        val == r.conclusion.value
    IN IF ~h.ok THEN st
       ELSE [st EXCEPT !.facts = Put(@, attr, val),
                       !.justifications =
                           Put(@, attr, Justification(Fact(attr, val), r.id, h.used,
                                                      NoteForward(it))),
                       !.inferred = Append(@, Fact(attr, val)),
                       !.new_any = TRUE]

\* one iteration of "for r in kb.rules"; st holds facts, justifications,
\* inferred and new_any as the loop body leaves them
forward_rule(st, r, it) ==
    LET h == conditions_hold(st.facts, r.conditions)
        attr == r.conclusion.attr
        val == r.conclusion.value
    IN IF ~h.ok THEN st
       ELSE IF has_fact(st.facts, attr, val) THEN st
       ELSE [st EXCEPT !.facts = Put(@, attr, val),
                       !.justifications =
                           Put(@, attr, Justification(Fact(attr, val), r.id, h.used,
                                                      NoteForward(it))),
                       !.inferred = Append(@, Fact(attr, val)),
                       !.new_any = TRUE]

RECURSIVE forward_scan(_, _, _, _)
forward_scan(st, rules, i, it) ==
    IF i > Len(rules) THEN st
    ELSE forward_scan(forward_rule(st, rules[i], it), rules, i + 1, it)

RECURSIVE forward_loop(_, _, _, _)
\* the loop of forward_chain as "while (new_any or it < 2) and it <
\* max_iterations": a round without an assertion does not end the first pass
forward_loop_second_pass(st, rules, it, cap) ==
    IF (st.new_any \/ it < 2) /\ it < cap
    THEN forward_loop(forward_scan([st EXCEPT !.new_any = FALSE], rules, 1, it + 1),
                      rules, it + 1, cap)
    ELSE [st EXCEPT !.it = it]

\* forward_chain scanning the rules once and reporting a fixpoint
forward_loop_one_round(st, rules, it, cap) ==
    IF st.new_any /\ it < cap
    THEN [forward_scan([st EXCEPT !.new_any = FALSE], rules, 1, it + 1)
              EXCEPT !.new_any = FALSE, !.it = it + 1]
    ELSE [st EXCEPT !.it = it]

forward_loop(st, rules, it, cap) ==
    IF st.new_any /\ it < cap
    THEN forward_loop(forward_scan([st EXCEPT !.new_any = FALSE], rules, 1, it + 1),
                      rules, it + 1, cap)
    ELSE [st EXCEPT !.it = it]

\* forward_chain(kb, max_iterations): the store after the call, the list it
\* returns, the number of rounds run and new_any when the loop ended
forward_chain(k, cap) ==
    LET st == forward_loop([facts |-> k.facts, justifications |-> k.justifications,
                            inferred |-> <<>>, new_any |-> TRUE, it |-> 0],
                           k.rules, 0, cap)
    IN [kb |-> [k EXCEPT !.facts = st.facts, !.justifications = st.justifications],
        inferred |-> st.inferred, it |-> st.it, new_any |-> st.new_any]

(***************************************************************************)
(* Backward chaining                                                       *)
(*                                                                         *)
(* The prover threads st = [facts, justifications, visited, blocked, log,  *)
(* tried, raised, calls] through the recursion: visited is the set shared  *)
(* by the whole top-level call, blocked holds the pairs on which a call    *)
(* returned at the visited check of lines 251-252, log lists the           *)
(* assertions of lines 282-285 in the order they were made, tried lists    *)
(* the candidates in the order the loop of line 261 finished with them,    *)
(* raised is set when the call depth passes RecursionLimit (Python raises  *)
(* RecursionError, which unwinds every frame), calls counts the calls that *)
(* passed the visited check.                                               *)
(***************************************************************************)
RECURSIVE backward_prove_rec(_, _, _, _, _)
RECURSIVE try_candidates(_, _, _, _, _, _, _)
RECURSIVE prove_conditions(_, _, _, _, _, _)

\* prove_conditions that also tries to prove an equality condition when the
\* attribute is known with another value
prove_conditions_reproves(rules, st, conds, j, used, depth) ==
    IF j > Len(conds) THEN [ok |-> TRUE, st |-> st, used |-> used]
    ELSE LET c == conds[j]
         IN IF c.attr \in DOMAIN st.facts /\ cmp(st.facts[c.attr], c.op, c.value)
            THEN prove_conditions(rules, st, conds, j + 1,
                                  Append(used, Fact(c.attr, st.facts[c.attr])), depth)
            ELSE IF c.op \in EqOps
                 THEN LET sub == backward_prove_rec(rules, st, c.attr, c.value, depth + 1)
                      IN IF sub.st.raised \/ ~sub.ok
                         THEN [ok |-> FALSE, st |-> sub.st, used |-> used]
                         ELSE prove_conditions(
                                  rules, sub.st, conds, j + 1,
                                  Append(used,
                                         Fact(c.attr,
                                              IF c.attr \in DOMAIN sub.st.facts
                                              THEN sub.st.facts[c.attr]
                                              ELSE c.value)),
                                  depth)
                 ELSE [ok |-> FALSE, st |-> st, used |-> used]

\* prove_conditions that cites the operand of a condition on a known attribute
\* instead of the known value
prove_conditions_cites_operand(rules, st, conds, j, used, depth) ==
    IF j > Len(conds) THEN [ok |-> TRUE, st |-> st, used |-> used]
    ELSE LET c == conds[j]
         IN IF c.attr \in DOMAIN st.facts
            THEN IF ~cmp(st.facts[c.attr], c.op, c.value)
                 THEN [ok |-> FALSE, st |-> st, used |-> used]
                 ELSE prove_conditions(rules, st, conds, j + 1,
                                       Append(used, Fact(c.attr, c.value)), depth)
            ELSE IF c.op \in EqOps
                 THEN LET sub == backward_prove_rec(rules, st, c.attr, c.value, depth + 1)
                      IN IF sub.st.raised \/ ~sub.ok
                         THEN [ok |-> FALSE, st |-> sub.st, used |-> used]
                         ELSE prove_conditions(
                                  rules, sub.st, conds, j + 1,
                                  Append(used,
                                         Fact(c.attr,
                                              IF c.attr \in DOMAIN sub.st.facts
                                              THEN sub.st.facts[c.attr]
                                              ELSE c.value)),
                                  depth)
                 ELSE [ok |-> FALSE, st |-> st, used |-> used]

\* prove_conditions taking a condition with another operator than equality on
\* an unknown attribute as resolved, with its operand as the premise
prove_conditions_assumes_inequality(rules, st, conds, j, used, depth) ==
    IF j > Len(conds) THEN [ok |-> TRUE, st |-> st, used |-> used]
    ELSE LET c == conds[j]
         IN IF c.attr \in DOMAIN st.facts
            THEN IF ~cmp(st.facts[c.attr], c.op, c.value)
                 THEN [ok |-> FALSE, st |-> st, used |-> used]
                 ELSE prove_conditions(rules, st, conds, j + 1,
                                       Append(used, Fact(c.attr, st.facts[c.attr])),
                                       depth)
            ELSE IF c.op \in EqOps
                 THEN LET sub == backward_prove_rec(rules, st, c.attr, c.value, depth + 1)
                      IN IF sub.st.raised \/ ~sub.ok
                         THEN [ok |-> FALSE, st |-> sub.st, used |-> used]
                         ELSE prove_conditions(
                                  rules, sub.st, conds, j + 1,
                                  Append(used,
                                         Fact(c.attr,
                                              IF c.attr \in DOMAIN sub.st.facts
                                              THEN sub.st.facts[c.attr]
                                              ELSE c.value)),
                                  depth)
                 ELSE prove_conditions(rules, st, conds, j + 1,
                                       Append(used, Fact(c.attr, c.value)), depth)

\* "for c in r.conditions" from condition j on; used is used_facts so far
prove_conditions(rules, st, conds, j, used, depth) ==
    IF j > Len(conds) THEN [ok |-> TRUE, st |-> st, used |-> used]
    ELSE LET c == conds[j]
         IN IF c.attr \in DOMAIN st.facts
            THEN IF ~cmp(st.facts[c.attr], c.op, c.value)
                 THEN [ok |-> FALSE, st |-> st, used |-> used]
                 ELSE prove_conditions(rules, st, conds, j + 1,
                                       Append(used, Fact(c.attr, st.facts[c.attr])),
                                       depth)
            ELSE IF c.op \in EqOps
                 THEN LET sub == backward_prove_rec(rules, st, c.attr, c.value, depth + 1)
                      IN IF sub.st.raised \/ ~sub.ok
                         THEN [ok |-> FALSE, st |-> sub.st, used |-> used]
                         ELSE prove_conditions(
                                  rules, sub.st, conds, j + 1,
                                  Append(used,
                                         Fact(c.attr,
                                              IF c.attr \in DOMAIN sub.st.facts
                                              THEN sub.st.facts[c.attr]
                                              ELSE c.value)),
                                  depth)
                 ELSE [ok |-> FALSE, st |-> st, used |-> used]

\* an entry of st.tried: candidate rule_id was tried for the goal and its
\* conditions resolved (ok) or not
Tried(goal_attr, goal_val, rule_id, ok) ==
    [attr |-> goal_attr, value |-> goal_val, rule_id |-> rule_id, ok |-> ok]

\* "for r in candidates" going on with the next candidate after one succeeded,
\* so that the last candidate that succeeds writes the justification
try_candidates_last_wins(rules, st, candidates, i, goal_attr, goal_val, depth) ==
    IF i > Len(candidates) THEN [ok |-> FALSE, st |-> st]
    ELSE LET r == candidates[i]
             res == prove_conditions(rules, st, r.conditions, 1, <<>>, depth)
         IN IF res.st.raised THEN [ok |-> FALSE, st |-> res.st]
            ELSE IF res.ok
            THEN LET done ==
                         [res.st EXCEPT
                             !.facts = Put(@, goal_attr, goal_val),
                             !.justifications =
                                 Put(@, goal_attr,
                                     Justification(Fact(goal_attr, goal_val), r.id,
                                                   res.used, NoteBackward)),
                             !.log = Append(@, [attr |-> goal_attr, value |-> goal_val,
                                                rule_id |-> r.id,
                                                premises |-> res.used]),
                             !.tried = Append(@, Tried(goal_attr, goal_val, r.id, TRUE))]
                     more == try_candidates(rules, done, candidates, i + 1, goal_attr,
                                            goal_val, depth)
                 IN [ok |-> TRUE, st |-> more.st]
            ELSE try_candidates(rules,
                                [res.st EXCEPT
                                    !.tried = Append(@, Tried(goal_attr, goal_val, r.id,
                                                              FALSE))],
                                candidates, i + 1, goal_attr, goal_val, depth)

\* "for r in candidates" from candidate i on
try_candidates(rules, st, candidates, i, goal_attr, goal_val, depth) ==
    IF i > Len(candidates) THEN [ok |-> FALSE, st |-> st]
    ELSE LET r == candidates[i]
             res == prove_conditions(rules, st, r.conditions, 1, <<>>, depth)
         IN IF res.st.raised THEN [ok |-> FALSE, st |-> res.st]
            ELSE IF res.ok
            THEN [ok |-> TRUE,
                  st |-> [res.st EXCEPT
                             !.facts = Put(@, goal_attr, goal_val),
                             !.justifications =
                                 Put(@, goal_attr,
                                     Justification(Fact(goal_attr, goal_val), r.id,
                                                   res.used, NoteBackward)),
                             !.log = Append(@, [attr |-> goal_attr, value |-> goal_val,
                                                rule_id |-> r.id,
                                                premises |-> res.used]),
                             !.tried = Append(@, Tried(goal_attr, goal_val, r.id, TRUE))]]
            ELSE try_candidates(rules,
                                [res.st EXCEPT
                                    !.tried = Append(@, Tried(goal_attr, goal_val, r.id,
                                                              FALSE))],
                                candidates, i + 1, goal_attr, goal_val, depth)

\* backward_prove without the visited check of lines 251-252
visited_guard_off(st, goal_attr, goal_val) == FALSE

\* "if (goal_attr, goal_val) in visited"
visited_guard(st, goal_attr, goal_val) == <<goal_attr, goal_val>> \in st.visited

\* backward_prove without "if kb.has_fact(goal_attr, goal_val): return True"
backward_prove_rec_tries_known(rules, st, goal_attr, goal_val, depth) ==
    IF depth > RecursionLimit THEN [ok |-> FALSE, st |-> [st EXCEPT !.raised = TRUE]]
    ELSE IF visited_guard(st, goal_attr, goal_val)
         THEN [ok |-> FALSE,
               st |-> [st EXCEPT !.blocked = @ \cup {<<goal_attr, goal_val>>}]]
    ELSE try_candidates(
             rules,
             [st EXCEPT !.visited = @ \cup {<<goal_attr, goal_val>>}, !.calls = @ + 1],
             SelectSeq(rules, LAMBDA r : r.conclusion.attr = goal_attr
                                         /\ r.conclusion.value = goal_val),
             1, goal_attr, goal_val, depth)

\* backward_prove with "if kb.has_fact(goal_attr)": a goal whose attribute has
\* a fact, of any value, counts as known
backward_prove_rec_any_value(rules, st, goal_attr, goal_val, depth) ==
    IF depth > RecursionLimit THEN [ok |-> FALSE, st |-> [st EXCEPT !.raised = TRUE]]
    ELSE IF visited_guard(st, goal_attr, goal_val)
         THEN [ok |-> FALSE,
               st |-> [st EXCEPT !.blocked = @ \cup {<<goal_attr, goal_val>>}]]
    ELSE LET st1 == [st EXCEPT !.visited = @ \cup {<<goal_attr, goal_val>>},
                               !.calls = @ + 1]
         IN IF goal_attr \in DOMAIN st1.facts THEN [ok |-> TRUE, st |-> st1]
            ELSE try_candidates(
                     rules, st1,
                     SelectSeq(rules, LAMBDA r : r.conclusion.attr = goal_attr
                                                 /\ r.conclusion.value = goal_val),
                     1, goal_attr, goal_val, depth)

backward_prove_rec(rules, st, goal_attr, goal_val, depth) ==
    IF depth > RecursionLimit THEN [ok |-> FALSE, st |-> [st EXCEPT !.raised = TRUE]]
    ELSE IF visited_guard(st, goal_attr, goal_val)
         THEN [ok |-> FALSE,
               st |-> [st EXCEPT !.blocked = @ \cup {<<goal_attr, goal_val>>}]]
    ELSE LET st1 == [st EXCEPT !.visited = @ \cup {<<goal_attr, goal_val>>},
                               !.calls = @ + 1]
         IN IF has_fact(st1.facts, goal_attr, goal_val) THEN [ok |-> TRUE, st |-> st1]
            ELSE try_candidates(
                     rules, st1,
                     SelectSeq(rules, LAMBDA r : r.conclusion.attr = goal_attr
                                                 /\ r.conclusion.value = goal_val),
                     1, goal_attr, goal_val, depth)

\* backward_prove(kb, goal_attr, goal_val) called with visited = None
backward_prove(k, goal_attr, goal_val) ==
    LET res == backward_prove_rec(
                   k.rules,
                   [facts |-> k.facts, justifications |-> k.justifications,
                    visited |-> {}, blocked |-> {}, log |-> <<>>, tried |-> <<>>,
                    raised |-> FALSE, calls |-> 0],
                   goal_attr, goal_val, 1)
    IN [ok |-> res.ok, raised |-> res.st.raised,
        kb |-> [k EXCEPT !.facts = res.st.facts,
                         !.justifications = res.st.justifications],
        visited |-> res.st.visited, blocked |-> res.st.blocked, log |-> res.st.log,
        tried |-> res.st.tried, calls |-> res.st.calls]

(***************************************************************************)
(* Explanation.  The text is a list of lines [depth, kind, attr, value];   *)
(* raised is set when the call depth passes RecursionLimit.                *)
(***************************************************************************)
Line(depth, kind, attr, value) ==
    [depth |-> depth, kind |-> kind, attr |-> attr, value |-> value]

RECURSIVE explain_how(_, _, _, _)
RECURSIVE explain_how_premises(_, _, _, _, _)

\* "for p in j.premises: s += explain_how(...)" from premise i on
explain_how_premises(k, premises, i, depth, out) ==
    IF i > Len(premises) THEN out
    ELSE LET p == premises[i]
             sub == explain_how(k, p.attr,
                                IF p.attr \in DOMAIN k.facts THEN k.facts[p.attr]
                                                             ELSE p.value,
                                depth + 1)
         IN IF sub.raised THEN [raised |-> TRUE, lines |-> out.lines]
            ELSE explain_how_premises(k, premises, i + 1, depth,
                                      [raised |-> FALSE, lines |-> out.lines \o sub.lines])

explain_how(k, attr, val, depth) ==
    IF depth >= RecursionLimit THEN [raised |-> TRUE, lines |-> <<>>]
    ELSE IF ~has_fact(k.facts, attr, val)
    THEN [raised |-> FALSE, lines |-> <<Line(depth, "not_proved", attr, val)>>]
    ELSE IF attr \notin DOMAIN k.justifications
    THEN [raised |-> FALSE, lines |-> <<Line(depth, "base", attr, val)>>]
    ELSE LET j == k.justifications[attr]
         IN IF j.rule_id = None
            THEN [raised |-> FALSE, lines |-> <<Line(depth, "base", attr, val)>>]
            ELSE explain_how_premises(
                     k, j.premises, 1, depth,
                     [raised |-> FALSE, lines |-> <<Line(depth, "step", attr, val)>>])

RECURSIVE explain_why_premises(_, _, _, _, _)
explain_why_premises(k, premises, i, depth, out) ==
    IF i > Len(premises) THEN out
    ELSE LET p == premises[i]
             derived == /\ p.attr \in DOMAIN k.justifications
                        /\ k.justifications[p.attr].rule_id # None
         IN IF derived
            THEN IF p.attr \notin DOMAIN k.facts
                 THEN [raised |-> TRUE, lines |-> out.lines]
                 ELSE LET sub == explain_how(k, p.attr, k.facts[p.attr], depth + 1)
                      IN IF sub.raised THEN [raised |-> TRUE, lines |-> out.lines]
                         ELSE explain_why_premises(
                                  k, premises, i + 1, depth,
                                  [raised |-> FALSE, lines |-> out.lines \o sub.lines])
            ELSE explain_why_premises(
                     k, premises, i + 1, depth,
                     [raised |-> FALSE,
                      lines |-> Append(out.lines,
                                       Line(depth + 1, "premise", p.attr, p.value))])

explain_why(k, attr, val, depth) ==
    IF ~has_fact(k.facts, attr, val)
    THEN [raised |-> FALSE, lines |-> <<Line(depth, "no_fact", attr, val)>>]
    ELSE IF attr \notin DOMAIN k.justifications
    THEN [raised |-> FALSE, lines |-> <<Line(depth, "no_justification", attr, val)>>]
    ELSE LET j == k.justifications[attr]
         IN IF j.rule_id = None
            THEN [raised |-> FALSE, lines |-> <<Line(depth, "given", attr, val)>>]
            ELSE explain_why_premises(
                     k, j.premises, 1, depth,
                     [raised |-> FALSE, lines |-> <<Line(depth, "because", attr, val)>>])

(***************************************************************************)
(* Persistence                                                             *)
(***************************************************************************)
AttrSeq == <<"X", "Y", "Z">>

list_facts(k) ==
    LET known == SelectSeq(AttrSeq, LAMBDA a : a \in DOMAIN k.facts)
    IN [i \in 1..Len(known) |-> Fact(known[i], k.facts[known[i]])]

to_json(k) ==
    [facts |-> list_facts(k),
     rules |-> [i \in 1..Len(k.rules) |->
                   [id |-> k.rules[i].id, conditions |-> k.rules[i].conditions,
                    conclusion |-> k.rules[i].conclusion, text |-> k.rules[i].text]]]

RECURSIVE load_facts(_, _, _)
load_facts(k, facts, i) ==
    IF i > Len(facts) THEN k
    ELSE load_facts(add_fact(k, facts[i].attr, facts[i].value), facts, i + 1)

Max(a, b) == IF a >= b THEN a ELSE b

\* the loop body of load_json numbering the loaded rule from the counter
load_rule_renumbers(k, r) ==
    [k EXCEPT !.next_rule_id = @ + 1,
              !.rules = Append(@, Rule(k.next_rule_id, r.conditions, r.conclusion,
                                       r.text))]

\* the loop body of load_json without the update of _next_rule_id
load_rule_keeps_counter(k, r) ==
    [k EXCEPT !.rules = Append(@, Rule(r.id, r.conditions, r.conclusion, r.text))]

\* the body of "for r in obj.get('rules', [])" in load_json
load_rule(k, r) ==
    [k EXCEPT !.next_rule_id = Max(@, r.id + 1),
              !.rules = Append(@, Rule(r.id, r.conditions, r.conclusion, r.text))]

RECURSIVE load_rules(_, _, _)
load_rules(k, rules, i) ==
    IF i > Len(rules) THEN k
    ELSE load_rules(load_rule(k, rules[i]), rules, i + 1)

\* load_json(obj): self.__init__() and then the two loops
load_json(obj) ==
    rebuild_attributes(load_rules(load_facts(KnowledgeBase, obj.facts, 1), obj.rules, 1))

(***************************************************************************)
(* Undo                                                                    *)
(***************************************************************************)
snapshot_kb(k) ==
    [facts |-> k.facts, justifications |-> k.justifications, rules |-> k.rules,
     next_rule_id |-> k.next_rule_id, attributes |-> k.attributes,
     cond_attrs |-> k.cond_attrs, concl_attrs |-> k.concl_attrs]

\* restore_kb without "kb._next_rule_id = snap.next_rule_id"
restore_kb_keeps_counter(k, snap) ==
    [k EXCEPT !.facts = snap.facts, !.justifications = snap.justifications,
              !.rules = snap.rules, !.attributes = snap.attributes,
              !.cond_attrs = snap.cond_attrs, !.concl_attrs = snap.concl_attrs]

restore_kb(k, snap) ==
    [k EXCEPT !.facts = snap.facts, !.justifications = snap.justifications,
              !.rules = snap.rules, !.next_rule_id = snap.next_rule_id,
              !.attributes = snap.attributes, !.cond_attrs = snap.cond_attrs,
              !.concl_attrs = snap.concl_attrs]

(***************************************************************************)
(* The record of the last operation (history, read by the properties)      *)
(***************************************************************************)
Last(op, pre, arg, ok, raised, out) ==
    [op |-> op, pre |-> pre, arg |-> arg, ok |-> ok, raised |-> raised, out |-> out,
     undone |-> "none"]

NoLast == Last("init", KnowledgeBase, <<>>, TRUE, FALSE, <<>>)

NoFile == [facts |-> <<>>, rules |-> <<>>, missing |-> TRUE]

MutatingOps == {"add_fact", "remove_fact", "add_rule", "remove_rule", "forward",
                "backward", "load", "import"}

(***************************************************************************)
(* The menu handlers (main's command loop)                                 *)
(***************************************************************************)
Running == ncmds < MaxCmds /\ ~last.raised

\* an undo stack that keeps the newest snapshot only
push_snapshot_keeps_one(stack, k) == <<snapshot_kb(k)>>

push_snapshot(stack, k) == Append(stack, snapshot_kb(k))

handle_add_fact ==
    /\ Running
    /\ \E attr \in kb.cond_attrs, val \in Values :
          /\ undo_stack' = push_snapshot(undo_stack, kb)
          /\ kb' = add_fact(kb, attr, val)
          /\ last' = Last("add_fact", kb, <<attr, val>>, TRUE, FALSE, <<>>)
    /\ ncmds' = ncmds + 1
    /\ UNCHANGED <<disk, issued>>

handle_add_rule ==
    /\ Running
    /\ Len(kb.rules) < MaxRules
    /\ kb.next_rule_id <= MaxRuleId
    /\ \E r \in RuleBook :
          /\ undo_stack' = push_snapshot(undo_stack, kb)
          /\ kb' = add_rule(kb, r.conditions, r.conclusion, r.text)
          /\ last' = Last("add_rule", kb, <<r>>, TRUE, FALSE,
                          [rid |-> returned_id(kb'), before |-> issued])
          /\ issued' = issued \cup {returned_id(kb')}
    /\ ncmds' = ncmds + 1
    /\ UNCHANGED disk

\* handle_remove_fact without "kb.justifications.pop(attr, None)"
remove_fact_keeps_justification(k, attr) == [k EXCEPT !.facts = Del(@, attr)]

\* lines 687-688 of handle_remove_fact
remove_fact(k, attr) ==
    [k EXCEPT !.facts = Del(@, attr), !.justifications = Del(@, attr)]

handle_remove_fact ==
    /\ Running
    /\ \E attr \in DOMAIN kb.facts :
          /\ undo_stack' = push_snapshot(undo_stack, kb)
          /\ kb' = remove_fact(kb, attr)
          /\ last' = Last("remove_fact", kb, <<attr>>, TRUE, FALSE, <<>>)
    /\ ncmds' = ncmds + 1
    /\ UNCHANGED <<disk, issued>>

handle_remove_rule ==
    /\ Running
    /\ \E i \in 1..Len(kb.rules) :
          \E rid \in {kb.rules[i].id} :
          \E res \in {remove_rule(kb, rid)} :
             /\ undo_stack' = push_snapshot(undo_stack, kb)
             /\ kb' = res.kb
             /\ last' = Last("remove_rule", kb, <<rid>>, res.ret, FALSE, <<>>)
    /\ ncmds' = ncmds + 1
    /\ UNCHANGED <<disk, issued>>

handle_forward ==
    /\ Running
    /\ \E res \in {forward_chain(kb, max_iterations)} :
          /\ undo_stack' = push_snapshot(undo_stack, kb)
          /\ kb' = res.kb
          /\ last' = Last("forward", kb, <<>>, TRUE, FALSE,
                          [inferred |-> res.inferred, it |-> res.it,
                           new_any |-> res.new_any])
    /\ ncmds' = ncmds + 1
    /\ UNCHANGED <<disk, issued>>

\* the second definition of handle_backward (the one main calls): prove, then
\* print explain_how on success
handle_backward ==
    /\ Running
    /\ \E goal_attr \in kb.concl_attrs, goal_val \in Values :
          \E res \in {backward_prove(kb, goal_attr, goal_val)} :
          \E how \in {IF res.ok /\ ~res.raised
                       THEN explain_how(res.kb, goal_attr, goal_val, 0)
                       ELSE [raised |-> FALSE, lines |-> <<>>]} :
             /\ undo_stack' = push_snapshot(undo_stack, kb)
             /\ kb' = res.kb
             /\ last' = Last("backward", kb, <<goal_attr, goal_val>>, res.ok,
                             res.raised \/ how.raised,
                             [visited |-> res.visited, blocked |-> res.blocked,
                              log |-> res.log,
                              tried |-> res.tried, calls |-> res.calls])
    /\ ncmds' = ncmds + 1
    /\ UNCHANGED <<disk, issued>>

handle_save ==
    /\ Running
    /\ disk' = to_json(kb) @@ [missing |-> FALSE]
    /\ last' = Last("save", kb, <<>>, TRUE, FALSE, <<>>)
    /\ ncmds' = ncmds + 1
    /\ UNCHANGED <<kb, undo_stack, issued>>

handle_load ==
    /\ Running
    /\ ~disk.missing
    /\ undo_stack' = push_snapshot(undo_stack, kb)
    /\ kb' = load_json(disk)
    /\ last' = Last("load", kb, <<>>, TRUE, FALSE, <<>>)
    /\ ncmds' = ncmds + 1
    /\ UNCHANGED <<disk, issued>>

\* a line of a rules file: a parsed rule, or a line parse_rule_pt rejects
BadLine == [conditions |-> <<>>, conclusion |-> Cond("", "", V1), text |-> "?"]

RuleFiles ==
    { <<r, BadLine>> : r \in RuleBook } \cup { <<BadLine>> }

RECURSIVE load_rules_from_txt(_, _, _)
load_rules_from_txt(k, lines, i) ==
    IF i > Len(lines) THEN k
    ELSE IF lines[i] = BadLine THEN load_rules_from_txt(k, lines, i + 1)
    ELSE load_rules_from_txt(
             add_rule(k, lines[i].conditions, lines[i].conclusion, lines[i].text),
             lines, i + 1)

handle_import_rules_txt ==
    /\ Running
    /\ \E lines \in RuleFiles :
          \E k2 \in {load_rules_from_txt(kb, lines, 1)} :
             /\ Len(k2.rules) <= MaxRules
             /\ k2.next_rule_id <= MaxRuleId + 1
             /\ undo_stack' = push_snapshot(undo_stack, kb)
             /\ kb' = k2
             /\ last' = Last("import", kb, lines, TRUE, FALSE, <<>>)
             /\ issued' = issued \cup (kb.next_rule_id .. (k2.next_rule_id - 1))
    /\ ncmds' = ncmds + 1
    /\ UNCHANGED disk

handle_undo ==
    /\ Running
    /\ IF undo_stack = <<>>
       THEN /\ last' = Last("undo", kb, <<>>, FALSE, FALSE, <<>>)
            /\ UNCHANGED <<kb, undo_stack>>
       ELSE /\ kb' = restore_kb(kb, undo_stack[Len(undo_stack)])
            /\ undo_stack' = SubSeq(undo_stack, 1, Len(undo_stack) - 1)
            /\ last' = [Last("undo", kb, <<>>, TRUE, FALSE, [target |-> last.pre])
                           EXCEPT !.undone = last.op]
    /\ ncmds' = ncmds + 1
    /\ UNCHANGED <<disk, issued>>

\* a kb.json left by an earlier session: two rules, the rule that had id 2
\* removed before saving, and one fact
SavedFile ==
    [facts |-> <<Fact("X", V1)>>,
     rules |-> <<[id |-> 1, conditions |-> <<Cond("X", "=", V1)>>,
                  conclusion |-> Cond("Y", "=", V1), text |-> "SE X = 1 ENTAO Y = 1"],
                 [id |-> 3, conditions |-> <<Cond("X", "=", V1)>>,
                  conclusion |-> Cond("X", "=", V2), text |-> "SE X = 1 ENTAO X = 2"]>>,
     missing |-> FALSE]

\* main: an empty store and an empty undo stack; kb.json may exist
Init ==
    /\ kb = KnowledgeBase
    /\ undo_stack = <<>>
    /\ disk \in {NoFile, SavedFile}
    /\ last = NoLast
    /\ issued = {}
    /\ ncmds = 0

Next ==
    \/ handle_add_fact
    \/ handle_add_rule
    \/ handle_remove_fact
    \/ handle_remove_rule
    \/ handle_forward
    \/ handle_backward
    \/ handle_save
    \/ handle_load
    \/ handle_import_rules_txt
    \/ handle_undo

Spec == Init /\ [][Next]_vars

(***************************************************************************)
(* The engine called directly on a new store: any sequence of calls of     *)
(* add_fact, add_rule, forward_chain and backward_prove.                   *)
(***************************************************************************)
\* a call is made unless the last one ended in an exception
Calling == ~last.raised

call_add_fact ==
    /\ Calling
    /\ \E attr \in Attrs, val \in Values :
          /\ kb' = add_fact(kb, attr, val)
          /\ last' = Last("add_fact", kb, <<attr, val>>, TRUE, FALSE, <<>>)
    /\ UNCHANGED <<undo_stack, disk, issued, ncmds>>

call_add_rule ==
    /\ Calling
    /\ Len(kb.rules) < MaxRules
    /\ kb.next_rule_id <= MaxRuleId
    /\ \E r \in RuleBook :
          /\ kb' = add_rule(kb, r.conditions, r.conclusion, r.text)
          /\ last' = Last("add_rule", kb, <<r>>, TRUE, FALSE,
                          [rid |-> returned_id(kb'), before |-> issued])
          /\ issued' = issued \cup {returned_id(kb')}
    /\ UNCHANGED <<undo_stack, disk, ncmds>>

call_forward ==
    /\ Calling
    /\ \E res \in {forward_chain(kb, max_iterations)} :
          /\ kb' = res.kb
          /\ last' = Last("forward", kb, <<>>, TRUE, FALSE,
                          [inferred |-> res.inferred, it |-> res.it,
                           new_any |-> res.new_any])
    /\ UNCHANGED <<undo_stack, disk, issued, ncmds>>

call_backward ==
    /\ Calling
    /\ \E goal_attr \in Attrs, goal_val \in Values :
          \E res \in {backward_prove(kb, goal_attr, goal_val)} :
             /\ kb' = res.kb
             /\ last' = Last("backward", kb, <<goal_attr, goal_val>>, res.ok, res.raised,
                             [visited |-> res.visited, blocked |-> res.blocked,
                              log |-> res.log,
                              tried |-> res.tried, calls |-> res.calls])
    /\ UNCHANGED <<undo_stack, disk, issued, ncmds>>

InitEngine ==
    /\ kb = KnowledgeBase
    /\ undo_stack = <<>>
    /\ disk = NoFile
    /\ last = NoLast
    /\ issued = {}
    /\ ncmds = 0

NextEngine ==
    \/ call_add_fact
    \/ call_add_rule
    \/ call_forward
    \/ call_backward

SpecEngine == InitEngine /\ [][NextEngine]_vars

(***************************************************************************)
(* Properties of forward_chain                                             *)
(***************************************************************************)
AfterForward == last.op = "forward"

\* the value of the last fact of the list forward_chain returned that is about a
LastInferred(inferred, a) ==
    LET idx == {i \in 1..Len(inferred) : inferred[i].attr = a}
    IN inferred[CHOOSE i \in idx : \A j \in idx : j <= i].value

\* C1 as stated: every (attribute, value) fact that is in the store before
\* forward_chain is still in the store, with that same value, when it returns.
C1_ForwardKeepsEveryFact ==
    AfterForward =>
        \A a \in DOMAIN last.pre.facts :
            a \in DOMAIN kb.facts /\ kb.facts[a] = last.pre.facts[a]

\* C1 amended: every attribute that has a fact before forward_chain still has
\* one when it returns; the fact and its justification are unchanged unless a
\* rule that fired during the call concluded that attribute, and then the fact
\* holds the value of the last such conclusion in the returned list.
C1_ForwardKeepsAttributes ==
    AfterForward =>
        \A a \in DOMAIN last.pre.facts :
            /\ a \in DOMAIN kb.facts
            /\ IF \E i \in 1..Len(last.out.inferred) : last.out.inferred[i].attr = a
               THEN kb.facts[a] = LastInferred(last.out.inferred, a)
               ELSE /\ kb.facts[a] = last.pre.facts[a]
                    /\ kb.justifications[a] = last.pre.justifications[a]

\* a forward run that replaced the value of a fact known before
C1_Witness ==
    /\ AfterForward
    /\ \E a \in DOMAIN last.pre.facts :
          a \in DOMAIN kb.facts /\ kb.facts[a] # last.pre.facts[a]

\* C2 as stated: a second forward_chain right after the first returns an empty
\* list and leaves facts and justifications as the first call left them.
C2_SecondRunAddsNothing ==
    AfterForward =>
        LET again == forward_chain(kb, max_iterations)
        IN again.inferred = <<>> /\ again.kb = kb

\* C2 amended: when the first call ended with a round in which no fact was
\* asserted (it did not stop at the iteration cap), a second call right after it
\* returns an empty list and leaves facts and justifications unchanged.
C2_SecondRunAfterFixpoint ==
    (AfterForward /\ ~last.out.new_any) =>
        LET again == forward_chain(kb, max_iterations)
        IN again.inferred = <<>> /\ again.kb = kb

\* a forward run that derived facts in two rounds and then reached the fixpoint
C2_Witness ==
    /\ AfterForward
    /\ ~last.out.new_any
    /\ last.out.it >= 3
    /\ Len(last.out.inferred) >= 2

(***************************************************************************)
(* Properties of backward_prove                                            *)
(***************************************************************************)
AfterBackward == last.op = "backward"
Failed == AfterBackward /\ ~last.ok /\ ~last.raised
Proved == AfterBackward /\ last.ok /\ ~last.raised

goal_attr_of(l) == l.arg[1]
goal_val_of(l) == l.arg[2]

\* C3 as stated: a top-level backward_prove that returns failure leaves facts
\* and justifications identical to what they were before the call.
C3_FailedProofLeavesStore ==
    Failed => /\ kb.facts = last.pre.facts
              /\ kb.justifications = last.pre.justifications

\* the rule with id rid in the rule list, used where the id is known to be there
RuleById(rules, rid) == rules[CHOOSE i \in 1..Len(rules) : rules[i].id = rid]
HasRule(rules, rid) == \E i \in 1..Len(rules) : rules[i].id = rid

\* the premises are one fact per condition of r, each satisfying its condition
PremisesMatch(r, premises) ==
    /\ Len(premises) = Len(r.conditions)
    /\ \A i \in 1..Len(premises) :
          /\ premises[i].attr = r.conditions[i].attr
          /\ cmp(premises[i].value, r.conditions[i].op, r.conditions[i].value)

\* C3 amended: a top-level backward_prove that returns failure leaves the rules
\* and every fact and justification that was in the store before the call
\* unchanged; the store differs only by facts for sub-goals proved before a later
\* condition failed, each with a backward justification naming a rule that
\* concludes it, and it is identical when no sub-goal was proved.
C3_FailedProofKeepsOldFacts ==
    Failed =>
        /\ kb.rules = last.pre.rules
        /\ \A a \in DOMAIN last.pre.facts :
              /\ a \in DOMAIN kb.facts
              /\ kb.facts[a] = last.pre.facts[a]
              /\ kb.justifications[a] = last.pre.justifications[a]
        /\ \A a \in DOMAIN kb.facts \ DOMAIN last.pre.facts :
              LET j == kb.justifications[a]
              IN /\ j.note = NoteBackward
                 /\ HasRule(kb.rules, j.rule_id)
                 /\ RuleById(kb.rules, j.rule_id).conclusion.attr = a
                 /\ RuleById(kb.rules, j.rule_id).conclusion.value = kb.facts[a]
                 /\ \E i \in 1..Len(last.out.log) : last.out.log[i].attr = a
        /\ (last.out.log = <<>> => kb = last.pre)

\* a failed proof that left a proved sub-goal in the store
C3_Witness ==
    /\ Failed
    /\ last.pre.facts # <<>>
    /\ DOMAIN kb.facts # DOMAIN last.pre.facts

\* the assertion e of the log was made by a rule whose conditions all held
SoundEntry(rules, e) ==
    /\ HasRule(rules, e.rule_id)
    /\ RuleById(rules, e.rule_id).conclusion.attr = e.attr
    /\ RuleById(rules, e.rule_id).conclusion.value = e.value
    /\ PremisesMatch(RuleById(rules, e.rule_id), e.premises)

\* premise p was in the store before the call or was asserted during it
PremiseAccounted(p) ==
    \/ has_fact(last.pre.facts, p.attr, p.value)
    \/ \E i \in 1..Len(last.out.log) :
          /\ last.out.log[i].attr = p.attr
          /\ last.out.log[i].value = p.value
          /\ SoundEntry(kb.rules, last.out.log[i])

\* C4 as stated: after a successful backward_prove the goal is a fact and every
\* premise cited in the goal's justification was in the store before the call or
\* was asserted during the call by a rule whose conditions were all satisfied.
C4_ProvedGoalPremisesAccounted ==
    Proved =>
        /\ has_fact(kb.facts, goal_attr_of(last), goal_val_of(last))
        /\ LET j == kb.justifications[goal_attr_of(last)]
           IN \A i \in 1..Len(j.premises) : PremiseAccounted(j.premises[i])

\* C4 amended: after a successful backward_prove the goal is a fact; when the
\* goal was not already a known fact, every premise cited in the goal's
\* justification was in the store before the call or was asserted during the
\* call by a rule whose conditions were all satisfied; when the goal was already
\* known, its justification is the one it had, whose premises may have been
\* replaced or removed since.
C4_ProvedGoalSound ==
    Proved =>
        /\ has_fact(kb.facts, goal_attr_of(last), goal_val_of(last))
        /\ IF has_fact(last.pre.facts, goal_attr_of(last), goal_val_of(last))
           THEN kb = last.pre
           ELSE LET j == kb.justifications[goal_attr_of(last)]
                IN /\ j.note = NoteBackward
                   /\ \A i \in 1..Len(j.premises) : PremiseAccounted(j.premises[i])

\* a proof that asserted a sub-goal and cited it as a premise of the goal
C4_Witness ==
    /\ Proved
    /\ Len(last.out.log) >= 2
    /\ \E i \in 1..Len(kb.justifications[goal_attr_of(last)].premises) :
          ~has_fact(last.pre.facts,
                    kb.justifications[goal_attr_of(last)].premises[i].attr,
                    kb.justifications[goal_attr_of(last)].premises[i].value)

\* the (attribute, value) pairs backward_prove can be called on: the goal and
\* the operands of the equality conditions of the rules
GoalPairs(rules, goal) ==
    {goal} \cup
    UNION { { <<rules[i].conditions[j].attr, rules[i].conditions[j].value>> :
                j \in {n \in 1..Len(rules[i].conditions) :
                          rules[i].conditions[n].op \in EqOps} } :
            i \in 1..Len(rules) }

\* the rule set of the cycle example: X = 1 from Y = 1, and Y = 1 from X = 1
IsCyclePair(rules) ==
    /\ Len(rules) = 2
    /\ \E i, n \in 1..2 :
          /\ i # n
          /\ rules[i].conditions = <<Cond("Y", "=", V1)>>
          /\ rules[i].conclusion = Cond("X", "=", V1)
          /\ rules[n].conditions = <<Cond("X", "=", V1)>>
          /\ rules[n].conclusion = Cond("Y", "=", V1)

CycleCase ==
    /\ AfterBackward
    /\ IsCyclePair(last.pre.rules)
    /\ "X" \notin DOMAIN last.pre.facts
    /\ "Y" \notin DOMAIN last.pre.facts
    /\ last.arg = <<"X", V1>>

\* C5: backward_prove terminates for every rule set: the call depth never
\* passes the number of pairs it can be called on, each pair being expanded at
\* most once; on the cycle example with X and Y unknown, backward_prove(X, 1)
\* returns failure.
C5_BackwardTerminates ==
    /\ AfterBackward =>
          /\ ~last.raised
          /\ last.out.visited \subseteq GoalPairs(last.pre.rules, <<last.arg[1], last.arg[2]>>)
          /\ last.out.calls = Cardinality(last.out.visited)
    /\ CycleCase => ~last.ok /\ ~last.raised /\ kb = last.pre

\* the cycle example ran: both pairs were visited, the second call on (X, 1)
\* was cut by the visited set
C5_Witness ==
    /\ CycleCase
    /\ last.out.visited = {<<"X", V1>>, <<"Y", V1>>}

(***************************************************************************)
(* Properties of the explanation traversals                                *)
(***************************************************************************)
\* C7: in every store reached by add fact, add rule, forward_chain and
\* backward_prove, explain_how and explain_why terminate for every current fact.
C7_ExplanationsTerminate ==
    \A a \in DOMAIN kb.facts :
        /\ ~explain_how(kb, a, kb.facts[a], 0).raised
        /\ ~explain_why(kb, a, kb.facts[a], 0).raised

(***************************************************************************)
(* Properties of the menu handlers (Spec)                                  *)
(***************************************************************************)
\* C6: every mutating command pushes a snapshot before it mutates, so that the
\* top of the undo stack restores the state before the command, and an undo
\* issued right after a mutating command leaves facts, rules, justifications,
\* the rule id counter and the catalogs exactly as they were before that command.
C6_UndoRestores ==
    /\ last.op \in MutatingOps =>
          /\ undo_stack # <<>>
          /\ restore_kb(kb, undo_stack[Len(undo_stack)]) = last.pre
    /\ (last.op = "undo" /\ last.undone \in MutatingOps) => kb = last.out.target

\* an undo right after a command that changed the store
C6_Witness ==
    /\ last.op = "undo"
    /\ last.undone \in MutatingOps
    /\ last.pre # kb
    /\ last.pre.next_rule_id # kb.next_rule_id

\* C8: in every state reached by the commands the attributes that have a fact
\* are the attributes that have a justification.
C8_FactsAndJustificationsKeyed == DOMAIN kb.facts = DOMAIN kb.justifications

\* a fact was removed from a store that holds a derived fact
C8_Witness ==
    /\ last.op = "remove_fact"
    /\ DOMAIN last.pre.facts # DOMAIN kb.facts
    /\ \E a \in DOMAIN kb.justifications : kb.justifications[a].rule_id # None

(***************************************************************************)
(* The rule list: add_rule and remove_rule called directly (SpecRules),    *)
(* and with to_json / load_json through a file (SpecRulesLoad).            *)
(***************************************************************************)
rules_add ==
    /\ Len(kb.rules) < MaxRules
    /\ kb.next_rule_id <= MaxRuleId
    /\ \E r \in RuleBook :
          /\ kb' = add_rule(kb, r.conditions, r.conclusion, r.text)
          /\ last' = Last("add_rule", kb, <<r>>, TRUE, FALSE,
                          [rid |-> returned_id(kb'), before |-> issued])
          /\ issued' = issued \cup {returned_id(kb')}
    /\ UNCHANGED <<undo_stack, disk, ncmds>>

rules_remove ==
    /\ \E rid \in 1..MaxRuleId :
          \E res \in {remove_rule(kb, rid)} :
             /\ kb' = res.kb
             /\ last' = Last("remove_rule", kb, <<rid>>, res.ret, FALSE, <<>>)
    /\ UNCHANGED <<undo_stack, disk, issued, ncmds>>

rules_save ==
    /\ disk' = to_json(kb) @@ [missing |-> FALSE]
    /\ last' = Last("save", kb, <<>>, TRUE, FALSE, <<>>)
    /\ UNCHANGED <<kb, undo_stack, issued, ncmds>>

rules_load ==
    /\ ~disk.missing
    /\ kb' = load_json(disk)
    /\ last' = Last("load", kb, <<>>, TRUE, FALSE, <<>>)
    /\ UNCHANGED <<undo_stack, disk, issued, ncmds>>

NextRules == rules_add \/ rules_remove

NextRulesLoad == rules_add \/ rules_remove \/ rules_save \/ rules_load

InitRules ==
    /\ kb = KnowledgeBase
    /\ undo_stack = <<>>
    /\ disk = NoFile
    /\ last = NoLast
    /\ issued = {}
    /\ ncmds = 0

SpecRules == InitRules /\ [][NextRules]_vars

SpecRulesLoad == InitRules /\ [][NextRulesLoad]_vars

RuleIds(rules) == {rules[i].id : i \in 1..Len(rules)}

UniqueIds(rules) == \A i, j \in 1..Len(rules) : rules[i].id = rules[j].id => i = j

ReturnedId == last.out.rid

\* C9 as stated: across add-rule, remove-rule and serialize-then-load no two
\* rules of the store share an id and add_rule never returns an id that an
\* earlier add_rule call returned.
C9_IdsNeverReused ==
    /\ UniqueIds(kb.rules)
    /\ last.op = "add_rule" => ReturnedId \notin last.out.before

\* C9 amended: no two rules of the store share an id, every id in the store is
\* below the id counter, and add_rule returns an id greater than the id of every
\* rule in the store at the call; load_json restarts the counter at one more
\* than the greatest loaded id, so after a serialize-then-load add_rule can
\* return again the id of a rule that was removed before the store was saved.
C9_IdsUniqueAndFresh ==
    /\ UniqueIds(kb.rules)
    /\ \A id \in RuleIds(kb.rules) : id < kb.next_rule_id
    /\ last.op = "add_rule" => \A id \in RuleIds(last.pre.rules) : ReturnedId > id
    /\ last.op = "load" =>
          kb.next_rule_id = 1 + (IF kb.rules = <<>> THEN 0
                                 ELSE CHOOSE m \in RuleIds(kb.rules) :
                                          \A id \in RuleIds(kb.rules) : id <= m)

\* add_rule on a store that was loaded from a file: it returned an id that was
\* returned before
C9_Witness ==
    /\ last.op = "add_rule"
    /\ ReturnedId \in last.out.before
    /\ Len(kb.rules) = 2

CondAttrsOf(rules) ==
    UNION { {rules[i].conditions[j].attr : j \in 1..Len(rules[i].conditions)} :
            i \in 1..Len(rules) }

ConclAttrsOf(rules) == {rules[i].conclusion.attr : i \in 1..Len(rules)}

\* C11: in every state reached by add rule, remove rule, import, load and undo
\* (and the other commands) the condition-side catalog is the set of attributes
\* of the conditions of the current rules, the conclusion-side catalog is the
\* set of attributes of their conclusions, and the catalog of all attributes is
\* the union of the two.
C11_CatalogsMatchRules ==
    /\ kb.cond_attrs = CondAttrsOf(kb.rules)
    /\ kb.concl_attrs = ConclAttrsOf(kb.rules)
    /\ kb.attributes = kb.cond_attrs \cup kb.concl_attrs

\* a rule was removed and an attribute left the catalogs while a rule remains
C11_Witness ==
    /\ last.op = "remove_rule"
    /\ last.ok
    /\ kb.rules # <<>>
    /\ kb.attributes # last.pre.attributes
    /\ kb.cond_attrs # last.pre.cond_attrs

(***************************************************************************)
(* Properties of persistence (Spec)                                        *)
(***************************************************************************)
\* the facts a persisted structure lists, as a map
FactsOfFile(obj) ==
    [a \in {obj.facts[i].attr : i \in 1..Len(obj.facts)} |->
        obj.facts[CHOOSE i \in 1..Len(obj.facts) : obj.facts[i].attr = a].value]

\* every fact of k is justified as directly asserted: no rule id, no premises
AllBase(k) ==
    /\ DOMAIN k.justifications = DOMAIN k.facts
    /\ \A a \in DOMAIN k.facts :
          /\ k.justifications[a].fact = Fact(a, k.facts[a])
          /\ k.justifications[a].rule_id = None
          /\ k.justifications[a].premises = <<>>

\* C12: for the store S of any reachable state, loading to_json(S) yields the
\* facts of S, the rules of S in the same order with the same ids, conditions
\* and conclusions, and a justification without rule id and premises for every
\* fact; and after a load command the store holds exactly the facts and rules
\* of the file, whatever the store held before.
C12_LoadOfSavedIsEquivalent ==
    /\ LET t == load_json(to_json(kb))
       IN /\ t.facts = kb.facts
          /\ t.rules = kb.rules
          /\ AllBase(t)
    /\ last.op = "load" =>
          /\ kb.facts = FactsOfFile(disk)
          /\ Len(kb.rules) = Len(disk.rules)
          /\ \A i \in 1..Len(kb.rules) :
                /\ kb.rules[i].id = disk.rules[i].id
                /\ kb.rules[i].conditions = disk.rules[i].conditions
                /\ kb.rules[i].conclusion = disk.rules[i].conclusion
          /\ AllBase(kb)

\* a file whose rule list has a gap in the ids was loaded into a store that held
\* other facts and other rules
C12_Witness ==
    /\ last.op = "load"
    /\ last.pre.facts # <<>>
    /\ \E a \in DOMAIN last.pre.facts :
          a \notin DOMAIN kb.facts \/ kb.facts[a] # last.pre.facts[a]
    /\ last.pre.rules # <<>>
    /\ last.pre.rules # kb.rules
    /\ kb.facts # <<>>
    /\ \E i \in 1..Len(kb.rules) : kb.rules[i].id # i

(***************************************************************************)
(* Termination of forward_chain (SpecEngine)                               *)
(***************************************************************************)
\* s is a prefix of t
IsPrefix(s, t) == Len(s) <= Len(t) /\ SubSeq(t, 1, Len(s)) = s

\* the number of the first round that asserts no fact, counting on from a run
\* that is in st after round it, or cap when no round up to cap is such a round
RECURSIVE QuietRound(_, _, _, _)
QuietRound(st, rules, it, cap) ==
    IF it >= cap THEN cap
    ELSE LET nx == forward_scan([st EXCEPT !.new_any = FALSE], rules, 1, it + 1)
         IN IF nx.new_any THEN QuietRound(nx, rules, it + 1, cap) ELSE it + 1

\* C13: forward_chain returns after at most max_iterations rounds; the round it
\* stops after is the first round in which no fact was asserted, or round
\* max_iterations when every round before it asserted one; when it stops at the
\* cap still asserting it returns the facts derived so far, at least one per
\* round, which extend what a run of one round less derives.
C13_ForwardStopsAtFixpointOrCap ==
    AfterForward =>
        /\ last.out.it >= 1
        /\ last.out.it <= max_iterations
        /\ last.out.it =
              QuietRound([facts |-> last.pre.facts,
                          justifications |-> last.pre.justifications,
                          inferred |-> <<>>, new_any |-> TRUE, it |-> 0],
                         last.pre.rules, 0, max_iterations)
        /\ last.out.new_any => last.out.it = max_iterations
        /\ Len(last.out.inferred) >= last.out.it - 1
        /\ last.out.new_any => Len(last.out.inferred) >= max_iterations
        /\ last.out.it > 1 =>
              LET part == forward_chain(last.pre, last.out.it - 1)
              IN /\ part.it = last.out.it - 1
                 /\ part.new_any
                 /\ IsPrefix(part.inferred, last.out.inferred)
                 /\ last.out.new_any => Len(part.inferred) < Len(last.out.inferred)

\* a run that was still asserting facts when it reached the cap
C13_Witness ==
    /\ AfterForward
    /\ last.out.new_any
    /\ last.out.it = max_iterations
    /\ Len(last.out.inferred) >= max_iterations

(***************************************************************************)
(* The contract of conditions_hold (SpecHold)                              *)
(*                                                                         *)
(* conditions_hold is called on the facts of a store built with add_fact   *)
(* and on the condition list of a rule of the rule book.                   *)
(***************************************************************************)
call_conditions_hold ==
    /\ Calling
    /\ \E r \in RuleBook :
          \E h \in {conditions_hold(kb.facts, r.conditions)} :
              last' = Last("conditions_hold", kb, <<r.conditions>>, h.ok, FALSE, h)
    /\ UNCHANGED <<kb, undo_stack, disk, issued, ncmds>>

NextHold ==
    \/ call_add_fact
    \/ call_conditions_hold

SpecHold == InitEngine /\ [][NextHold]_vars

AfterHold == last.op = "conditions_hold"

\* condition c has a fact for its attribute and the fact satisfies it
CondSatisfied(facts, c) ==
    c.attr \in DOMAIN facts /\ cmp(facts[c.attr], c.op, c.value)

\* C17: conditions_hold returns (false, empty list) when some condition has no
\* fact for its attribute or is not satisfied, and otherwise (true, premises)
\* with one premise per condition, in condition order, each the current fact of
\* the attribute of its condition; the store is as it was before the call.
C17_ConditionsHoldContract ==
    AfterHold =>
        LET conds == last.arg[1]
            facts == last.pre.facts
            h == last.out
        IN /\ kb = last.pre
           /\ last.ok = h.ok
           /\ IF \A i \in 1..Len(conds) : CondSatisfied(facts, conds[i])
              THEN /\ h.ok
                   /\ Len(h.used) = Len(conds)
                   /\ \A i \in 1..Len(conds) :
                         h.used[i] = Fact(conds[i].attr, facts[conds[i].attr])
              ELSE h = [ok |-> FALSE, used |-> <<>>]

\* a call on two conditions whose first holds and whose second fails on a
\* known fact
C17_Witness ==
    /\ AfterHold
    /\ Len(last.arg[1]) = 2
    /\ CondSatisfied(last.pre.facts, last.arg[1][1])
    /\ last.arg[1][2].attr \in DOMAIN last.pre.facts
    /\ ~CondSatisfied(last.pre.facts, last.arg[1][2])
    /\ last.out = [ok |-> FALSE, used |-> <<>>]

(***************************************************************************)
(* backward_prove on a goal that is already known (SpecEngine)             *)
(***************************************************************************)
GoalKnownBefore ==
    AfterBackward /\ has_fact(last.pre.facts, goal_attr_of(last), goal_val_of(last))

\* C19: when the goal is a known fact with exactly the goal value,
\* backward_prove succeeds in its first call, tries no rule, asserts nothing
\* and leaves the facts and the justifications, the justification of the goal
\* attribute included, as they were.
C19_KnownGoalNotRewritten ==
    GoalKnownBefore =>
        /\ last.ok
        /\ ~last.raised
        /\ kb.facts = last.pre.facts
        /\ kb.justifications = last.pre.justifications
        /\ last.out.log = <<>>
        /\ last.out.calls = 1
        /\ last.out.visited = {<<goal_attr_of(last), goal_val_of(last)>>}

\* the goal was known as a directly asserted fact while a rule concluding it
\* had all its conditions satisfied
C19_Witness ==
    /\ GoalKnownBefore
    /\ last.pre.justifications[goal_attr_of(last)].rule_id = None
    /\ \E i \in 1..Len(last.pre.rules) :
          /\ last.pre.rules[i].conclusion.attr = goal_attr_of(last)
          /\ last.pre.rules[i].conclusion.value = goal_val_of(last)
          /\ conditions_hold(last.pre.facts, last.pre.rules[i].conditions).ok

(***************************************************************************)
(* The order of the candidates in backward_prove (SpecEngine)              *)
(***************************************************************************)
\* the rules concluding the goal of the last call, in rule-insertion order
GoalCandidates ==
    SelectSeq(last.pre.rules,
              LAMBDA r : /\ r.conclusion.attr = goal_attr_of(last)
                         /\ r.conclusion.value = goal_val_of(last))

\* the candidates the top-level call tried for its goal, in the order tried
GoalTried ==
    SelectSeq(last.out.tried,
              LAMBDA t : t.attr = goal_attr_of(last) /\ t.value = goal_val_of(last))

\* C20: in a backward_prove that proves a goal not known before, the candidates
\* tried for the goal are an initial part of the rules concluding it, in
\* insertion order; all of them failed but the last one tried, whose id the
\* justification of the goal carries, and no candidate after it was tried.  When
\* no sub-goal was asserted, a candidate resolved exactly when its conditions
\* hold on the facts of the store.
C20_FirstCandidateWins ==
    (Proved /\ ~GoalKnownBefore) =>
        LET n == Len(GoalTried)
        IN /\ n >= 1
           /\ n <= Len(GoalCandidates)
           /\ \A i \in 1..n : GoalTried[i].rule_id = GoalCandidates[i].id
           /\ \A i \in 1..(n - 1) : ~GoalTried[i].ok
           /\ GoalTried[n].ok
           /\ kb.justifications[goal_attr_of(last)].rule_id = GoalCandidates[n].id
           /\ kb.justifications[goal_attr_of(last)].note = NoteBackward
           /\ Len(last.out.log) = 1 =>
                 \A i \in 1..n :
                     GoalTried[i].ok
                         = conditions_hold(last.pre.facts, GoalCandidates[i].conditions).ok

\* two rules conclude the goal and both have their conditions satisfied: the
\* one inserted first wrote the justification
C20_Witness ==
    /\ Proved
    /\ ~GoalKnownBefore
    /\ Len(GoalCandidates) = 2
    /\ conditions_hold(last.pre.facts, GoalCandidates[1].conditions).ok
    /\ conditions_hold(last.pre.facts, GoalCandidates[2].conditions).ok
    /\ kb.justifications[goal_attr_of(last)].rule_id = GoalCandidates[1].id

(***************************************************************************)
(* The fever example: the engine called directly with the two rules of the *)
(* example, a rule with an ordering on a text, a rule with an operator     *)
(* _cmp does not know, and facts that are numbers and texts (SpecFebre).   *)
(***************************************************************************)
Sim == Text("Sim")
Alto == Text("Alto")

\* 39.2 and 37.0 typed as numbers, Sim, and 40 typed in quotes
FebreValues == {Num(392), Num(370), Sim, Text("40")}

FebreFactAttrs == {"Temperatura", "Febre"}

FebreGoals == {<<"Febre", Sim>>, <<"Risco", Alto>>}

RuleFebre ==
    [conditions |-> <<Cond("Temperatura", ">", Num(380))>>,
     conclusion |-> Cond("Febre", "=", Sim),
     text |-> "SE Temperatura > 38.0 ENTAO Febre = Sim"]

RuleRisco ==
    [conditions |-> <<Cond("Febre", "=", Sim)>>,
     conclusion |-> Cond("Risco", "=", Alto),
     text |-> "SE Febre = Sim ENTAO Risco = Alto"]

\* an ordering on an attribute whose value is the text Sim
RuleOrderOnText ==
    [conditions |-> <<Cond("Febre", ">", Num(380))>>,
     conclusion |-> Cond("Risco", "=", Alto),
     text |-> "SE Febre > 38.0 ENTAO Risco = Alto"]

\* _COND_RE ignores case, so it accepts EH, which is not in the list of _cmp
RuleUnknownOp ==
    [conditions |-> <<Cond("Febre", "EH", Sim)>>,
     conclusion |-> Cond("Risco", "=", Alto),
     text |-> "SE Febre EH Sim ENTAO Risco = Alto"]

FebreBook == {RuleFebre, RuleRisco, RuleOrderOnText, RuleUnknownOp}

febre_add_fact ==
    /\ Calling
    /\ \E attr \in FebreFactAttrs, val \in FebreValues :
          /\ kb' = add_fact(kb, attr, val)
          /\ last' = Last("add_fact", kb, <<attr, val>>, TRUE, FALSE, <<>>)
    /\ UNCHANGED <<undo_stack, disk, issued, ncmds>>

febre_add_rule ==
    /\ Calling
    /\ Len(kb.rules) < MaxRules
    /\ \E r \in FebreBook :
          /\ kb' = add_rule(kb, r.conditions, r.conclusion, r.text)
          /\ last' = Last("add_rule", kb, <<r>>, TRUE, FALSE,
                          [rid |-> returned_id(kb'), before |-> issued])
          /\ issued' = issued \cup {returned_id(kb')}
    /\ UNCHANGED <<undo_stack, disk, ncmds>>

febre_forward ==
    /\ Calling
    /\ \E res \in {forward_chain(kb, max_iterations)} :
          /\ kb' = res.kb
          /\ last' = Last("forward", kb, <<>>, TRUE, FALSE,
                          [inferred |-> res.inferred, it |-> res.it,
                           new_any |-> res.new_any])
    /\ UNCHANGED <<undo_stack, disk, issued, ncmds>>

febre_backward ==
    /\ Calling
    /\ \E goal \in FebreGoals :
          \E res \in {backward_prove(kb, goal[1], goal[2])} :
             /\ kb' = res.kb
             /\ last' = Last("backward", kb, goal, res.ok, res.raised,
                             [visited |-> res.visited, blocked |-> res.blocked,
                              log |-> res.log,
                              tried |-> res.tried, calls |-> res.calls])
    /\ UNCHANGED <<undo_stack, disk, issued, ncmds>>

NextFebre ==
    \/ febre_add_fact
    \/ febre_add_rule
    \/ febre_forward
    \/ febre_backward

SpecFebre == InitEngine /\ [][NextFebre]_vars

(***************************************************************************)
(* Properties checked on the fever example (SpecFebre)                     *)
(***************************************************************************)
\* rule r of the store is the rule b of the book
IsRule(r, b) == r.conditions = b.conditions /\ r.conclusion = b.conclusion

HasBookRule(rules, b) == \E i \in 1..Len(rules) : IsRule(rules[i], b)

\* the position of the first occurrence of b in rules
FirstPos(rules, b) ==
    CHOOSE i \in 1..Len(rules) :
        /\ IsRule(rules[i], b)
        /\ \A n \in 1..(i - 1) : ~IsRule(rules[n], b)

\* forward_chain was called with both rules of the example in the store, a
\* Temperatura above 38.0 and neither Febre nor Risco known
CascadeCase ==
    /\ AfterForward
    /\ HasBookRule(last.pre.rules, RuleFebre)
    /\ HasBookRule(last.pre.rules, RuleRisco)
    /\ "Temperatura" \in DOMAIN last.pre.facts
    /\ cmp(last.pre.facts["Temperatura"], ">", Num(380))
    /\ "Febre" \notin DOMAIN last.pre.facts
    /\ "Risco" \notin DOMAIN last.pre.facts

\* a Risco rule stands after the first Febre rule in the rule list
RiscoAfterFebre ==
    \E r \in 1..Len(last.pre.rules) :
        /\ r > FirstPos(last.pre.rules, RuleFebre)
        /\ IsRule(last.pre.rules[r], RuleRisco)

\* C14: with the rules Temperatura > 38.0 -> Febre = Sim and Febre = Sim ->
\* Risco = Alto in the store, in either order, and a Temperatura above 38.0
\* (39.2 in the example), forward_chain asserts Febre = Sim in round 1 and Risco
\* = Alto, with premise Febre = Sim, in the same round 1 when a Risco rule stands
\* after the Febre rule and in round 2 when it stands before.
C14_SameRoundCascade ==
    CascadeCase =>
        /\ has_fact(kb.facts, "Febre", Sim)
        /\ has_fact(kb.facts, "Risco", Alto)
        /\ last.out.inferred = <<Fact("Febre", Sim), Fact("Risco", Alto)>>
        /\ kb.justifications["Febre"].note = NoteForward(1)
        /\ kb.justifications["Febre"].rule_id
               = last.pre.rules[FirstPos(last.pre.rules, RuleFebre)].id
        /\ kb.justifications["Febre"].premises
               = <<Fact("Temperatura", last.pre.facts["Temperatura"])>>
        /\ kb.justifications["Risco"].premises = <<Fact("Febre", Sim)>>
        /\ kb.justifications["Risco"].note
               = NoteForward(IF RiscoAfterFebre THEN 1 ELSE 2)
        /\ last.out.it = (IF RiscoAfterFebre THEN 2 ELSE 3)

\* the example with the Febre rule inserted first and Temperatura = 39.2: Risco
\* was asserted in the round that asserted Febre
C14_Witness ==
    /\ CascadeCase
    /\ last.pre.facts = [a \in {"Temperatura"} |-> Num(392)]
    /\ Len(last.pre.rules) = 2
    /\ IsRule(last.pre.rules[1], RuleFebre)
    /\ IsRule(last.pre.rules[2], RuleRisco)
    /\ kb.justifications["Risco"].note = NoteForward(1)

\* backward_prove(Risco, Alto) was called with both rules of the example in the
\* store and no fact for Temperatura, Febre and Risco
NoTemperaturaCase ==
    /\ AfterBackward
    /\ last.arg = <<"Risco", Alto>>
    /\ HasBookRule(last.pre.rules, RuleFebre)
    /\ HasBookRule(last.pre.rules, RuleRisco)
    /\ "Temperatura" \notin DOMAIN last.pre.facts
    /\ "Febre" \notin DOMAIN last.pre.facts
    /\ "Risco" \notin DOMAIN last.pre.facts

\* C15: a rule that asserted a fact during backward_prove has no condition
\* with another operator than equality on an attribute that was unknown when
\* the rule was tried, and no call is made for such a condition; on the example
\* without a fact for Temperatura, backward_prove(Risco, Alto) returns failure
\* and asserts neither Febre nor Risco.
C15_InequalityOnUnknownFails ==
    /\ AfterBackward =>
          /\ \A n \in 1..Len(last.out.log) :
                LET r == RuleById(last.pre.rules, last.out.log[n].rule_id)
                IN \A i \in 1..Len(r.conditions) :
                       r.conditions[i].op \notin EqOps =>
                           \/ r.conditions[i].attr \in DOMAIN last.pre.facts
                           \/ \E m \in 1..(n - 1) :
                                  last.out.log[m].attr = r.conditions[i].attr
          /\ \A g \in last.out.visited : g[1] # "Temperatura"
    /\ NoTemperaturaCase =>
          /\ ~last.ok
          /\ ~last.raised
          /\ kb = last.pre
          /\ last.out.log = <<>>
          /\ last.out.visited = {<<"Risco", Alto>>, <<"Febre", Sim>>}

\* the example ran on a store without facts
C15_Witness ==
    /\ NoTemperaturaCase
    /\ last.pre.facts = <<>>
    /\ Len(last.pre.rules) = 2
    /\ <<"Febre", Sim>> \in last.out.visited

OrderOps == {"<", "le_sign", "<=", ">", "ge_sign", ">="}

KnownOps == EqOps \cup {"!=", "ne_sign"} \cup OrderOps \cup {"IN", "in", "In", "iN"}

\* the values of the example that are not numeric
NonNumeric == {Sim, Alto}

\* condition c applied to the known value v is a comparison mismatch
Mismatch(v, c) ==
    \/ c.op \notin KnownOps
    \/ c.op \in OrderOps /\ (v \in NonNumeric \/ c.value \in NonNumeric)

\* the fact of attribute a was written by the last operation
Written(a) ==
    \/ a \notin DOMAIN last.pre.facts
    \/ kb.justifications[a] # last.pre.justifications[a]

\* C18: a condition with an operator _cmp does not know, or with an ordering
\* where the known value or the operand is not numeric, is false for every
\* value; no rule with such a condition writes a fact in forward_chain or
\* backward_prove, and the rules and candidates after it are still evaluated:
\* after a forward_chain that reached its fixpoint every rule whose conditions
\* hold has its conclusion in the store, and a backward_prove fails only when no
\* candidate has all its conditions satisfied by known facts.
C18_MismatchFailsClosed ==
    /\ \A r \in FebreBook : \A i \in 1..Len(r.conditions) : \A v \in FebreValues :
          Mismatch(v, r.conditions[i]) =>
              ~cmp(v, r.conditions[i].op, r.conditions[i].value)
    /\ (AfterForward \/ AfterBackward) =>
          \A a \in DOMAIN kb.facts :
              Written(a) =>
                  LET j == kb.justifications[a]
                      r == RuleById(kb.rules, j.rule_id)
                  IN /\ HasRule(kb.rules, j.rule_id)
                     /\ Len(j.premises) = Len(r.conditions)
                     /\ \A i \in 1..Len(r.conditions) :
                           ~Mismatch(j.premises[i].value, r.conditions[i])
    /\ (AfterForward /\ ~last.out.new_any) =>
          \A i \in 1..Len(kb.rules) :
              conditions_hold(kb.facts, kb.rules[i].conditions).ok =>
                  has_fact(kb.facts, kb.rules[i].conclusion.attr,
                           kb.rules[i].conclusion.value)
    /\ Failed =>
          \A i \in 1..Len(last.pre.rules) :
              (/\ last.pre.rules[i].conclusion.attr = goal_attr_of(last)
               /\ last.pre.rules[i].conclusion.value = goal_val_of(last))
                  => ~conditions_hold(last.pre.facts, last.pre.rules[i].conditions).ok

\* forward_chain met a rule with a mismatching condition on the known text Sim
\* first and then fired the rule after it
C18_Witness ==
    /\ AfterForward
    /\ Len(last.pre.rules) = 2
    /\ IsRule(last.pre.rules[1], RuleOrderOnText) \/ IsRule(last.pre.rules[1], RuleUnknownOp)
    /\ IsRule(last.pre.rules[2], RuleRisco)
    /\ has_fact(last.pre.facts, "Febre", Sim)
    /\ Mismatch(last.pre.facts["Febre"], last.pre.rules[1].conditions[1])
    /\ "Risco" \notin DOMAIN last.pre.facts
    /\ has_fact(kb.facts, "Risco", Alto)
    /\ kb.justifications["Risco"].rule_id = last.pre.rules[2].id

(***************************************************************************)
(* The undo stack over sequences of commands (Spec)                        *)
(***************************************************************************)
\* store k holds what snapshot snap recorded
SameStore(k, snap) ==
    /\ k.facts = snap.facts
    /\ k.justifications = snap.justifications
    /\ k.rules = snap.rules
    /\ k.next_rule_id = snap.next_rule_id
    /\ k.attributes = snap.attributes
    /\ k.cond_attrs = snap.cond_attrs
    /\ k.concl_attrs = snap.concl_attrs

\* one command, seen from the undo stack
UndoStackStep ==
    IF last'.op = "undo"
    THEN IF undo_stack = <<>>
         THEN kb' = kb /\ undo_stack' = <<>> /\ ~last'.ok
         ELSE /\ SameStore(kb', undo_stack[Len(undo_stack)])
              /\ undo_stack' = SubSeq(undo_stack, 1, Len(undo_stack) - 1)
    ELSE \/ kb' = kb /\ undo_stack' = undo_stack
         \/ /\ Len(undo_stack') = Len(undo_stack) + 1
            /\ SubSeq(undo_stack', 1, Len(undo_stack)) = undo_stack
            /\ SameStore(kb, undo_stack'[Len(undo_stack')])

ChainBook ==
    { [conditions |-> <<Cond("Y", "=", V1)>>, conclusion |-> Cond("X", "=", V1),
       text |-> "SE Y = 1 ENTAO X = 1"],
      [conditions |-> <<Cond("X", "=", V1)>>, conclusion |-> Cond("Y", "=", V1),
       text |-> "SE X = 1 ENTAO Y = 1"],
      [conditions |-> <<Cond("X", "=", V2)>>, conclusion |-> Cond("X", "=", V1),
       text |-> "SE X = 2 ENTAO X = 1"],
      [conditions |-> <<Cond("X", "=", V1), Cond("Y", ">", V1)>>,
       conclusion |-> Cond("Z", "=", V1),
       text |-> "SE X = 1 E Y > 1 ENTAO Z = 1"],
      [conditions |-> <<Cond("X", "=", V1), Cond("Y", "=", V1)>>,
       conclusion |-> Cond("Z", "=", V1),
       text |-> "SE X = 1 E Y = 1 ENTAO Z = 1"] }

chain_add_rule ==
    /\ Calling
    /\ Len(kb.rules) < MaxRules
    /\ \E r \in ChainBook :
          /\ kb' = add_rule(kb, r.conditions, r.conclusion, r.text)
          /\ last' = Last("add_rule", kb, <<r>>, TRUE, FALSE,
                          [rid |-> returned_id(kb'), before |-> issued])
          /\ issued' = issued \cup {returned_id(kb')}
    /\ UNCHANGED <<undo_stack, disk, ncmds>>

NextChain ==
    \/ call_add_fact
    \/ chain_add_rule
    \/ call_forward
    \/ call_backward

SpecChain == InitEngine /\ [][NextChain]_vars

(***************************************************************************)
(* backward_prove and conditions on known attributes (SpecChain)           *)
(***************************************************************************)
\* condition c is on an attribute that had a fact before the call, and that
\* fact does not satisfy it
KnownMismatch(c) ==
    /\ c.attr \in DOMAIN last.pre.facts
    /\ ~cmp(last.pre.facts[c.attr], c.op, c.value)

\* the rules of the store before the call that conclude (attr, value)
Concluding(attr, value) ==
    SelectSeq(last.pre.rules, LAMBDA r : r.conclusion.attr = attr
                                         /\ r.conclusion.value = value)

\* backward_prove was called on a goal that was not a known fact, and every
\* candidate of the goal has a condition on a known attribute whose fact does
\* not satisfy it
AllCandidatesMismatch ==
    /\ AfterBackward
    /\ ~has_fact(last.pre.facts, goal_attr_of(last), goal_val_of(last))
    /\ \A n \in 1..Len(GoalCandidates) :
          \E i \in 1..Len(GoalCandidates[n].conditions) :
              KnownMismatch(GoalCandidates[n].conditions[i])

\* C21: in backward_prove no candidate succeeds with a condition that the
\* known fact of its attribute does not satisfy, and no call is made on an
\* attribute that was known before the top-level call, the goal apart; every
\* attribute known before keeps its fact and its justification unless it is
\* the goal attribute of a successful call.  When every candidate of the goal
\* has such a condition the call fails and those facts and justifications are
\* the ones from before, also when a rule of the store concludes the value the
\* condition requires.
C21_KnownMismatchFailsCandidate ==
    AfterBackward =>
        /\ \A n \in 1..Len(last.out.tried) :
              last.out.tried[n].ok =>
                  LET r == RuleById(last.pre.rules, last.out.tried[n].rule_id)
                  IN \A i \in 1..Len(r.conditions) : ~KnownMismatch(r.conditions[i])
        /\ \A g \in last.out.visited :
              g[1] \in DOMAIN last.pre.facts => g = <<goal_attr_of(last), goal_val_of(last)>>
        /\ \A a \in DOMAIN last.pre.facts :
              (a # goal_attr_of(last) \/ ~last.ok) =>
                  /\ a \in DOMAIN kb.facts
                  /\ kb.facts[a] = last.pre.facts[a]
                  /\ kb.justifications[a] = last.pre.justifications[a]
        /\ AllCandidatesMismatch => ~last.ok

\* the only candidate needs X = 1, X is known as 2, and a rule of the store
\* concludes X = 1 from X = 2: the call failed and X is still 2
C21_Witness ==
    /\ AllCandidatesMismatch
    /\ Len(GoalCandidates) = 1
    /\ \E i \in 1..Len(GoalCandidates[1].conditions) :
          LET c == GoalCandidates[1].conditions[i]
          IN /\ KnownMismatch(c)
             /\ c.op \in EqOps
             /\ \E n \in 1..Len(Concluding(c.attr, c.value)) :
                    conditions_hold(last.pre.facts,
                                    Concluding(c.attr, c.value)[n].conditions).ok
             /\ kb.facts[c.attr] = last.pre.facts[c.attr]
    /\ ~last.ok

(***************************************************************************)
(* The visited set of backward_prove (SpecChain)                           *)
(***************************************************************************)
\* some candidate of (attr, value) in store k has all its conditions
\* satisfied by the facts of k, or (attr, value) is a fact of k
HasWhatItNeeds(k, attr, value) ==
    \/ has_fact(k.facts, attr, value)
    \/ \E i \in 1..Len(k.rules) :
          /\ k.rules[i].conclusion.attr = attr
          /\ k.rules[i].conclusion.value = value
          /\ conditions_hold(k.facts, k.rules[i].conditions).ok

\* within one top-level call every pair is expanded once: each call that
\* passed the visited check added a pair, a pair met again was visited before
\* and was not expanded, no candidate was tried twice for a pair, and the goal
\* itself was expanded; the call succeeds when the store has what the goal needs
ExpandedOnce ==
    (AfterBackward /\ ~last.raised) =>
        /\ last.out.calls = Cardinality(last.out.visited)
        /\ last.out.blocked \subseteq last.out.visited
        /\ <<goal_attr_of(last), goal_val_of(last)>> \in last.out.visited
        /\ \A m, n \in 1..Len(last.out.tried) :
              (/\ last.out.tried[m].attr = last.out.tried[n].attr
               /\ last.out.tried[m].value = last.out.tried[n].value
               /\ last.out.tried[m].rule_id = last.out.tried[n].rule_id) => m = n
        /\ HasWhatItNeeds(last.pre, goal_attr_of(last), goal_val_of(last)) => last.ok

\* a call that failed is followed by add_fact: the next call on the same goal
\* starts with an empty visited set, so it expands the goal again, and it
\* succeeds when the store now has the facts a candidate needs
RetryStep ==
    (Failed /\ last'.op = "add_fact") =>
        LET again == backward_prove(kb', goal_attr_of(last), goal_val_of(last))
        IN /\ <<goal_attr_of(last), goal_val_of(last)>> \in again.visited
           /\ again.calls >= 1
           /\ HasWhatItNeeds(kb', goal_attr_of(last), goal_val_of(last)) => again.ok

\* C22: within one top-level backward_prove each (attribute, value) pair is
\* expanded at most once and a pair met a second time fails that branch
\* without being expanded; the visited set of one top-level call is not seen
\* by the next: a goal that failed is expanded again by the next call on it,
\* and that call succeeds when the store has gained the facts a candidate of
\* the goal needs.
C22_VisitedOncePerCall == []ExpandedOnce /\ [][RetryStep]_vars

\* a call that met a pair a second time and failed, on a store where the
\* same goal is proved once one fact is added
C22_Witness ==
    /\ Failed
    /\ last.out.blocked # {}
    /\ kb = last.pre
    /\ \E attr \in Attrs, val \in Values :
          /\ attr # goal_attr_of(last)
          /\ backward_prove(add_fact(kb, attr, val),
                            goal_attr_of(last), goal_val_of(last)).ok

(***************************************************************************)
(* forward_chain and conclusions that are already known (SpecChain)        *)
(***************************************************************************)
\* the facts after the first n assertions of the returned list
RECURSIVE FactsAfter(_, _, _)
FactsAfter(facts, inferred, n) ==
    IF n = 0 THEN facts
    ELSE Put(FactsAfter(facts, inferred, n - 1), inferred[n].attr, inferred[n].value)

\* rule i of the store has its conditions satisfied by the facts before the
\* call and its conclusion was an identical fact then, which no rule of the
\* store replaces by another value
Rederivation(i) ==
    LET r == last.pre.rules[i]
    IN /\ conditions_hold(last.pre.facts, r.conditions).ok
       /\ has_fact(last.pre.facts, r.conclusion.attr, r.conclusion.value)
       /\ \A n \in 1..Len(last.pre.rules) :
             last.pre.rules[n].conclusion.attr = r.conclusion.attr
                 => last.pre.rules[n].conclusion.value = r.conclusion.value

\* C23: forward_chain asserts no fact that is identical to the fact the store
\* holds at that moment; an attribute with no entry in the returned list keeps
\* its fact and its justification; a rule whose conditions hold and whose
\* conclusion is already an identical known fact does not fire: the fact keeps
\* the justification it had and is not in the returned list.
C23_RederivationIsNoOp ==
    AfterForward =>
        /\ \A n \in 1..Len(last.out.inferred) :
              ~has_fact(FactsAfter(last.pre.facts, last.out.inferred, n - 1),
                        last.out.inferred[n].attr, last.out.inferred[n].value)
        /\ \A a \in DOMAIN last.pre.facts :
              (\A n \in 1..Len(last.out.inferred) : last.out.inferred[n].attr # a)
                  => /\ has_fact(kb.facts, a, last.pre.facts[a])
                     /\ kb.justifications[a] = last.pre.justifications[a]
        /\ \A i \in 1..Len(last.pre.rules) :
              Rederivation(i) =>
                  LET c == last.pre.rules[i].conclusion
                  IN /\ has_fact(kb.facts, c.attr, c.value)
                     /\ kb.justifications[c.attr] = last.pre.justifications[c.attr]
                     /\ \A n \in 1..Len(last.out.inferred) :
                           last.out.inferred[n] # Fact(c.attr, c.value)

\* a rule whose conditions held concluded a fact added with add_fact: the
\* justification of the fact is still the base one
C23_Witness ==
    /\ AfterForward
    /\ \E i \in 1..Len(last.pre.rules) :
          /\ Rederivation(i)
          /\ last.pre.justifications[last.pre.rules[i].conclusion.attr].note = NoteBase
          /\ kb.justifications[last.pre.rules[i].conclusion.attr].note = NoteBase

(***************************************************************************)
(* add_fact on a store built by any sequence of commands (Spec)            *)
(***************************************************************************)
AfterAddFact == last.op = "add_fact"

\* C24: after add_fact(attribute, value) the store has the fact attribute =
\* value with a base justification, without rule id and without premises,
\* whatever fact and justification the attribute had before; the attributes
\* that have a fact and a justification are those from before and this one,
\* and the facts and justifications of the other attributes, and the rules, are
\* as they were.
C24_AddFactReplacesOneEntry ==
    AfterAddFact =>
        LET a == last.arg[1]
            v == last.arg[2]
        IN /\ kb.facts[a] = v
           /\ kb.justifications[a] = Justification(Fact(a, v), None, <<>>, NoteBase)
           /\ DOMAIN kb.facts = DOMAIN last.pre.facts \cup {a}
           /\ DOMAIN kb.justifications = DOMAIN last.pre.justifications \cup {a}
           /\ \A b \in DOMAIN last.pre.facts \ {a} :
                 /\ kb.facts[b] = last.pre.facts[b]
                 /\ kb.justifications[b] = last.pre.justifications[b]
           /\ kb.rules = last.pre.rules

\* add_fact gave another value to an attribute whose fact a rule had derived
C24_Witness ==
    /\ AfterAddFact
    /\ last.arg[1] \in DOMAIN last.pre.facts
    /\ last.pre.facts[last.arg[1]] # last.arg[2]
    /\ last.pre.justifications[last.arg[1]].rule_id # None
    /\ last.pre.justifications[last.arg[1]].premises # <<>>
    /\ DOMAIN last.pre.facts # {last.arg[1]}

(***************************************************************************)
(* The justifications forward_chain and backward_prove write (SpecChain)   *)
(***************************************************************************)
\* the position of the last entry for attribute a in a list of facts or of
\* log entries, 0 when there is none
LastPos(entries, a) ==
    IF \E n \in 1..Len(entries) : entries[n].attr = a
    THEN CHOOSE n \in 1..Len(entries) :
             /\ entries[n].attr = a
             /\ \A m \in (n + 1)..Len(entries) : entries[m].attr # a
    ELSE 0

\* the position of the rule with id rid in the rule list
RulePos(rules, rid) == CHOOSE i \in 1..Len(rules) : rules[i].id = rid

\* justification j of attribute a names a rule of the store that concludes the
\* current fact of a and has one premise per condition of that rule, in
\* condition order, each on the attribute of its condition with a value that
\* satisfies it
NamesFiredRule(a, j) ==
    /\ j.fact = Fact(a, kb.facts[a])
    /\ j.rule_id # None
    /\ HasRule(last.pre.rules, j.rule_id)
    /\ RuleById(last.pre.rules, j.rule_id).conclusion.attr = a
    /\ RuleById(last.pre.rules, j.rule_id).conclusion.value = kb.facts[a]
    /\ PremisesMatch(RuleById(last.pre.rules, j.rule_id), j.premises)

\* the attributes forward_chain asserted carry a justification of the rule
\* that fired, tagged with its round; the returned list replayed on the facts
\* from before gives the facts of the store, and its order is the order of the
\* rounds and, within a round, of the rules
ForwardJustifies ==
    AfterForward =>
        /\ FactsAfter(last.pre.facts, last.out.inferred, Len(last.out.inferred))
               = kb.facts
        /\ \A a \in DOMAIN kb.facts :
              LET p == LastPos(last.out.inferred, a)
                  j == kb.justifications[a]
              IN IF p = 0
                 THEN j = last.pre.justifications[a]
                 ELSE /\ last.out.inferred[p] = Fact(a, kb.facts[a])
                      /\ NamesFiredRule(a, j)
                      /\ j.note.tag = "forward"
                      /\ j.note.it \in 1..last.out.it
                      /\ j.note.it <= p
        /\ \A a, b \in DOMAIN kb.facts :
              LET pa == LastPos(last.out.inferred, a)
                  pb == LastPos(last.out.inferred, b)
                  ja == kb.justifications[a]
                  jb == kb.justifications[b]
              IN (0 < pa /\ pa < pb) =>
                     \/ ja.note.it < jb.note.it
                     \/ /\ ja.note.it = jb.note.it
                        /\ RulePos(last.pre.rules, ja.rule_id)
                               < RulePos(last.pre.rules, jb.rule_id)

\* the attributes a successful backward_prove asserted carry the justification
\* of the last assertion made for them, tagged backward, of a rule that fired
BackwardJustifies ==
    Proved =>
        \A a \in DOMAIN kb.facts :
            LET p == LastPos(last.out.log, a)
                j == kb.justifications[a]
            IN IF p = 0
               THEN j = last.pre.justifications[a]
               ELSE /\ j = Justification(Fact(a, last.out.log[p].value),
                                         last.out.log[p].rule_id,
                                         last.out.log[p].premises, NoteBackward)
                    /\ NamesFiredRule(a, j)

\* C25: every justification written by forward_chain or by a successful
\* backward_prove records the id of the rule that fired and one premise per
\* condition of that rule, in condition order, premise i on the attribute of
\* condition i with a value that satisfies condition i; forward_chain tags it
\* with the round in which the rule fired and backward_prove tags it backward;
\* forward_chain returns the asserted facts in the order they were asserted.
C25_JustificationsRecordFiring == ForwardJustifies /\ BackwardJustifies

\* forward_chain fired a rule with two conditions in its second round, after
\* the rule that gave it its second premise
C25_Witness ==
    /\ AfterForward
    /\ \E a \in DOMAIN kb.facts :
          /\ LastPos(last.out.inferred, a) > 1
          /\ Len(kb.justifications[a].premises) = 2
          /\ kb.justifications[a].premises[1].attr # kb.justifications[a].premises[2].attr
          /\ kb.justifications[a].note = NoteForward(2)

(***************************************************************************)
(* The fact recorded in a justification (Spec)                             *)
(***************************************************************************)
\* C26: in every reachable state of the command loop the justification of each
\* attribute records the current fact of that attribute: justifications[a].fact
\* has attribute a and value facts[a].
C26_JustificationRecordsCurrentFact ==
    \A a \in DOMAIN kb.justifications :
        /\ a \in DOMAIN kb.facts
        /\ kb.justifications[a].fact.attr = a
        /\ kb.justifications[a].fact.value = kb.facts[a]

\* forward_chain, the fourth command of a session, replaced the value of an
\* attribute and derived a fact for another one
C26_Witness ==
    /\ AfterForward
    /\ ncmds = 4
    /\ \E a \in DOMAIN last.pre.facts :
          /\ kb.facts[a] # last.pre.facts[a]
          /\ kb.justifications[a].fact = Fact(a, kb.facts[a])
    /\ \E b \in DOMAIN kb.facts : b \notin DOMAIN last.pre.facts

(***************************************************************************)
(* The store forward_chain leaves at its fixpoint (SpecChain)              *)
(***************************************************************************)
\* forward_chain returned after a round in which no fact was asserted
EndedQuiet == AfterForward /\ ~last.out.new_any

\* C27: when forward_chain returns after a round in which no fact was asserted,
\* the store is closed under the rules: every rule all of whose conditions are
\* satisfied by the facts of the final store has its conclusion (attribute,
\* value) as a fact of the final store.
C27_FixpointIsClosed ==
    EndedQuiet =>
        \A i \in 1..Len(kb.rules) :
            (\A n \in 1..Len(kb.rules[i].conditions) :
                 CondSatisfied(kb.facts, kb.rules[i].conditions[n]))
                => /\ kb.rules[i].conclusion.attr \in DOMAIN kb.facts
                   /\ kb.facts[kb.rules[i].conclusion.attr]
                          = kb.rules[i].conclusion.value

\* a run of three rounds: the second rule of the store fired in round 1, the
\* first one in round 2 on the fact the second had derived, and round 3
\* asserted nothing
C27_Witness ==
    /\ EndedQuiet
    /\ last.out.it = 3
    /\ Len(last.out.inferred) = 2
    /\ Len(kb.rules) = 2
    /\ kb.justifications[last.out.inferred[1].attr].rule_id = kb.rules[2].id
    /\ kb.justifications[last.out.inferred[2].attr].rule_id = kb.rules[1].id
    /\ \A i \in 1..2 : conditions_hold(kb.facts, kb.rules[i].conditions).ok

(***************************************************************************)
(* remove_rule and the facts a rule derived (Spec)                         *)
(***************************************************************************)
AfterRemoveRule == last.op = "remove_rule"

\* C28: remove_rule(id) on a rule of the store returns true, takes that rule
\* out of the rule list, keeping the other rules and their order, and leaves
\* the facts, the justifications and the id counter as they were, the facts
\* derived by the removed rule and the justifications naming its id included;
\* the attribute catalogs are those of the rules left.  remove_rule on an id
\* no rule has returns false and changes nothing.
C28_RemoveRuleKeepsFacts ==
    /\ AfterRemoveRule =>
          /\ last.ok
          /\ kb.facts = last.pre.facts
          /\ kb.justifications = last.pre.justifications
          /\ kb.next_rule_id = last.pre.next_rule_id
          /\ kb.rules = SelectSeq(last.pre.rules, LAMBDA r : r.id # last.arg[1])
          /\ Len(kb.rules) = Len(last.pre.rules) - 1
          /\ kb.cond_attrs = CondAttrsOf(kb.rules)
          /\ kb.concl_attrs = ConclAttrsOf(kb.rules)
    /\ \A rid \in 1..kb.next_rule_id :
          ~HasRule(kb.rules, rid) => remove_rule(kb, rid) = [ret |-> FALSE, kb |-> kb]

\* the removed rule had derived a fact: the fact is still in the store and its
\* justification names the id of a rule that is gone
C28_Witness ==
    /\ AfterRemoveRule
    /\ \E a \in DOMAIN kb.facts :
          /\ kb.justifications[a].rule_id = last.arg[1]
          /\ kb.justifications[a].premises # <<>>
    /\ ~HasRule(kb.rules, last.arg[1])

(***************************************************************************)
(* What backward_prove writes, in calls that succeed or fail (SpecChain)   *)
(***************************************************************************)
\* premise prem was the fact of its attribute when assertion p of the log was
\* made: the assertion before p on that attribute made it, or the store had
\* it before the call and no assertion before p was on that attribute
HeldWhenWritten(p, prem) ==
    LET q == LastPos(SubSeq(last.out.log, 1, p - 1), prem.attr)
    IN IF q = 0 THEN has_fact(last.pre.facts, prem.attr, prem.value)
       ELSE last.out.log[q].value = prem.value

\* assertion p of the log was made by a rule of the store that concludes the
\* asserted fact, with premises that were facts then and satisfy its conditions
SoundWhenWritten(p) ==
    /\ SoundEntry(last.pre.rules, last.out.log[p])
    /\ \A i \in 1..Len(last.out.log[p].premises) :
          HeldWhenWritten(p, last.out.log[p].premises[i])

\* attribute a has another fact or another justification than before the call
ChangedByCall(a) ==
    \/ a \notin DOMAIN last.pre.facts
    \/ kb.facts[a] # last.pre.facts[a]
    \/ kb.justifications[a] # last.pre.justifications[a]

\* C29: after backward_prove, whether it returned success or failure, the
\* rules, the catalogs and the id counter are as before and every attribute
\* that had a fact still has one; every assertion the call made was made by a
\* rule concluding exactly the asserted (attribute, value) whose conditions
\* were all satisfied by the facts of that moment; an attribute whose fact or
\* justification differs from before carries the justification of the last
\* assertion made on it, tagged backward.
C29_BackwardWritesAreSound ==
    (AfterBackward /\ ~last.raised) =>
        /\ [kb EXCEPT !.facts = last.pre.facts,
                      !.justifications = last.pre.justifications] = last.pre
        /\ DOMAIN last.pre.facts \subseteq DOMAIN kb.facts
        /\ DOMAIN kb.justifications = DOMAIN kb.facts
        /\ \A p \in 1..Len(last.out.log) : SoundWhenWritten(p)
        /\ \A a \in DOMAIN kb.facts :
              ChangedByCall(a) =>
                  LET p == LastPos(last.out.log, a)
                  IN /\ p > 0
                     /\ kb.facts[a] = last.out.log[p].value
                     /\ kb.justifications[a]
                            = Justification(Fact(a, last.out.log[p].value),
                                            last.out.log[p].rule_id,
                                            last.out.log[p].premises, NoteBackward)

\* a call that returned failure after it had proved and asserted a sub-goal:
\* the fact it left has a backward justification of a rule that concludes it
C29_Witness ==
    /\ Failed
    /\ Len(last.out.log) = 1
    /\ last.out.log[1].attr # goal_attr_of(last)
    /\ last.out.log[1].attr \notin DOMAIN last.pre.facts
    /\ kb.justifications[last.out.log[1].attr].note = NoteBackward
    /\ kb.justifications[last.out.log[1].attr].premises # <<>>

(***************************************************************************)
(* backward_prove against forward_chain from the same store (SpecChain)    *)
(***************************************************************************)
\* no two rules of store k conclude different values for one attribute, and
\* no attribute that has a fact in k is the conclusion of a rule of k
SingleValued(k) ==
    /\ \A i, n \in 1..Len(k.rules) :
          k.rules[i].conclusion.attr = k.rules[n].conclusion.attr
              => k.rules[i].conclusion.value = k.rules[n].conclusion.value
    /\ \A a \in DOMAIN k.facts :
          \A i \in 1..Len(k.rules) : k.rules[i].conclusion.attr # a

\* C30: for a store where no two rules conclude different values for the same
\* attribute and no known attribute is a rule conclusion, when backward_prove
\* succeeds on (goalAttribute, goalValue), forward_chain run on the same store
\* reaches its fixpoint and ends with the fact goalAttribute = goalValue, and
\* with every fact backward_prove asserted.
C30_BackwardWithinForward ==
    (Proved /\ SingleValued(last.pre)) =>
        LET f == forward_chain(last.pre, max_iterations)
        IN /\ ~f.new_any
           /\ has_fact(f.kb.facts, goal_attr_of(last), goal_val_of(last))
           /\ \A a \in DOMAIN kb.facts : has_fact(f.kb.facts, a, kb.facts[a])

\* a proof through a sub-goal, on a store where neither the goal nor the
\* sub-goal was known: forward_chain from the same store derives both
C30_Witness ==
    /\ Proved
    /\ SingleValued(last.pre)
    /\ Len(last.out.log) = 2
    /\ goal_attr_of(last) \notin DOMAIN last.pre.facts
    /\ has_fact(forward_chain(last.pre, max_iterations).kb.facts,
                goal_attr_of(last), goal_val_of(last))
    /\ Len(forward_chain(last.pre, max_iterations).inferred) >= 2

====
